---- MODULE Spec2Model ----
(***************************************************************************)
(* Floor Plan -> 3D: the Index page (state cells and handlers), the       *)
(* Sidebar and WallReview callers of its handlers, and the detection      *)
(* service detectFloorPlan.                                               *)
(*                                                                         *)
(* Lengths are integers: canonical values are micrometres (1 m = 10^6),   *)
(* values typed or displayed in a unit are hundredths of that unit.       *)
(***************************************************************************)
EXTENDS Integers, Sequences, FiniteSets, Bags, TLC

VARIABLES
    API_KEY,    \* whether VITE_GEMINI_API_KEY is set in this build
    app,        \* the useState cells of Index
    review,     \* the useState cells of WallReview (fresh on every mount)
    twin,       \* a second run fed the same events, detection flags differing
    pending,    \* handleDetect calls awaiting detectFloorPlan: a bag of
                \* [image, before], the image a call was started for and
                \* the geometry cells as they were when it started
    last,       \* the event handled last (history)
    edits,      \* edits begun so far: cells opened, Sidebar inputs changed
    dfp,        \* one detectFloorPlan call: its inputs and its outcome
    calc        \* one call of a function of the edit cells or of the 3-D
                \* scene: its inputs and its result

vars == <<API_KEY, app, review, twin, pending, last, edits, dfp, calc>>

(* ------------------------------ bounds -------------------------------- *)
MaxPending == 2                   \* detectFloorPlan calls in flight at once
MaxEdits == 2                     \* edits begun in one run
MaxLength == 2000000000           \* longest length an edit cell commits (2 km)
MaxRooms == 5                     \* rooms in a list handed to computePositions
MaxCalls == 2                     \* renders of one Scene
MaxObservers == 4                 \* ResizeObservers WallReview creates in one run

(* ----------------------------- constants ------------------------------ *)
NoImage == 0                      \* imageUrl / imageFile === null
NaN == 0 - 999999999              \* parseFloat of an unparsable text
undefined == 0 - 1                \* an absent optional number

AppMode == {"simple", "pro"}
DimensionUnit == {"m", "cm", "mm", "ft"}

\* UNITS[u].toMeter, in micrometres per unit
UNITS == [m |-> 1000000, cm |-> 10000, mm |-> 1000, ft |-> 304800]

null == << >>                     \* a null state cell or result part
Some(x) == << x >>
DefaultWallHeight == 2800000      \* 2.8

MODELS == <<"gemini-2.0-flash", "gemini-1.5-flash", "gemini-2.0-flash-lite">>

(* ------------------------------ datasets ------------------------------ *)
Room(id, w, h, conf) ==
    [id |-> id, width |-> w, height |-> h, wallHeight |-> DefaultWallHeight,
     confidence |-> conf, material |-> "undefined"]

Wall(id, type, thick) ==
    [id |-> id, wallHeight |-> undefined, type |-> type, thickness |-> thick]

\* MOCK_RESULT, cut down to its first two rooms, its first wall, door and
\* window
MOCK_RESULT ==
    [rooms   |-> << Room("r1", 4000000, 2000000, "high"),
                    Room("r2", 5500000, 3300000, "high") >>,
     walls   |-> << Wall("w1", "exterior", 250000) >>,
     doors   |-> << "d1" >>,
     windows |-> << "win1" >>]

\* what tryModel can parse out of a model's answer
ParsedResult(name) ==
    CASE name = "plan"  -> [rooms   |-> << Room("room_1", 5000000, 4000000, "low") >>,
                            walls   |-> << Wall("w1", "exterior", 250000),
                                           Wall("w2", "interior", 150000) >>,
                            doors   |-> << "d1" >>,
                            windows |-> << >>]
      [] name = "empty" -> [rooms |-> << >>, walls |-> << >>,
                            doors |-> << >>, windows |-> << >>]

ParsedNames == {"plan", "empty"}

(* ------------------- services/floorplanAI.ts -------------------------- *)
\* HTTP statuses a model endpoint answers with when the request is not ok
Statuses == {400, 403, 404, 429, 500}

\* What one request can come back with: a non-ok status, an ok answer whose
\* text parses, an ok answer whose text does not parse, or a rejected fetch
Responses ==
    {[kind |-> "http", status |-> s, data |-> "none"] : s \in Statuses}
    \cup {[kind |-> "ok", status |-> 200, data |-> d] : d \in ParsedNames}
    \cup {[kind |-> "garbled", status |-> 200, data |-> "none"],
          [kind |-> "reject", status |-> 0, data |-> "none"]}

IsResponse(r) == r.kind \in {"http", "ok", "garbled"}

\* tryModel reporting an answer that does not parse as a 404
tryModel_parseFailureAs404(resp) ==
    CASE resp.kind = "reject"  -> [status |-> 0, t |-> "throw", result |-> null]
      [] resp.kind = "http"    -> [status |-> resp.status, t |-> "status", result |-> null]
      [] resp.kind = "garbled" -> [status |-> 404, t |-> "status", result |-> null]
      [] resp.kind = "ok"      -> [status |-> 0, t |-> "result",
                                   result |-> Some(ParsedResult(resp.data))]

tryModel(resp) ==
    CASE resp.kind = "reject"  -> [status |-> 0, t |-> "throw", result |-> null]
      [] resp.kind = "http"    -> [status |-> resp.status, t |-> "status", result |-> null]
      [] resp.kind = "garbled" -> [status |-> 0 - 1, t |-> "status", result |-> null]
      [] resp.kind = "ok"      -> [status |-> 0, t |-> "result",
                                   result |-> Some(ParsedResult(resp.data))]

\* how detectFloorPlan ends: kind is "result" (resolved), or the rejection
\* "NO_API_KEY", "API_ERROR" (with status) or "threw" (a rejection passed on
\* from reading the image or from a request); requests counts tryModel calls
Outcome(kind, result, status, requests, read) ==
    [kind |-> kind, status |-> status, result |-> result,
     requests |-> requests, read |-> read]

\* afterLoop without its `lastStatus === 403` branch
afterLoop_throwsOn403(lastStatus, requests) ==
    IF lastStatus = 429
    THEN Outcome("result", Some(MOCK_RESULT @@ [usedMock |-> TRUE]), lastStatus, requests, TRUE)
    ELSE Outcome("API_ERROR", null, lastStatus, requests, TRUE)

\* lines 517-529: what follows the loop once it has ended without a result
afterLoop(lastStatus, requests) ==
    IF lastStatus = 429
    THEN Outcome("result", Some(MOCK_RESULT @@ [usedMock |-> TRUE]), lastStatus, requests, TRUE)
    ELSE IF lastStatus = 403
    THEN Outcome("result", Some(MOCK_RESULT @@ [usedMock |-> TRUE]), lastStatus, requests, TRUE)
    ELSE Outcome("API_ERROR", null, lastStatus, requests, TRUE)

\* lines 507-515: `for (const model of MODELS)`, k the index of the next model
RECURSIVE modelLoop(_, _, _)
modelLoop(script, k, lastStatus) ==
    IF k > Len(MODELS)
    THEN afterLoop(lastStatus, k - 1)
    ELSE LET attempt == tryModel(script[k]) IN
         IF attempt.t = "throw"
         THEN Outcome("threw", null, lastStatus, k, TRUE)
         ELSE IF attempt.t = "result"
         THEN Outcome("result", Some(attempt.result[1] @@ [usedModel |-> MODELS[k]]),
                      lastStatus, k, TRUE)
         ELSE IF attempt.status # 404
         THEN afterLoop(attempt.status, k)
         ELSE modelLoop(script, k + 1, attempt.status)

detectFloorPlan(key, readOk, script) ==
    IF ~key THEN Outcome("NO_API_KEY", null, 0, 0, FALSE)
    ELSE IF ~readOk THEN Outcome("threw", null, 0, 0, TRUE)
    ELSE modelLoop(script, 1, 0)

Scripts == [1..Len(MODELS) -> Responses]

(* ----------------------- pages/Index (state, handlers) ---------------- *)
\* lines 14-28: the initial value of every state cell
IndexInit ==
    [mode |-> "simple", imageUrl |-> NoImage, imageFile |-> NoImage,
     rooms |-> << >>, walls |-> << >>, doors |-> << >>, windows |-> << >>,
     detected |-> FALSE, detecting |-> FALSE, detectError |-> null,
     usedMock |-> FALSE, generated |-> FALSE, scale |-> 100, unit |-> "m"]

\* lines 18-25: the geometry cells and the two flags that go with them
Geometry(a) == <<a.rooms, a.walls, a.doors, a.windows, a.detected, a.generated>>

handleImageUpload(a, file) ==
    [a EXCEPT !.imageUrl = file, !.imageFile = file,
              !.detected = FALSE, !.generated = FALSE, !.detectError = null,
              !.rooms = << >>, !.walls = << >>, !.doors = << >>, !.windows = << >>]

\* handleClear without its setWalls([])
handleClear_keepsWalls(a) ==
    [a EXCEPT !.imageUrl = NoImage, !.imageFile = NoImage,
              !.rooms = << >>, !.doors = << >>, !.windows = << >>,
              !.detected = FALSE, !.detecting = FALSE, !.detectError = null,
              !.generated = FALSE]

\* handleClear without its setGenerated(false)
handleClear_keepsGenerated(a) ==
    [a EXCEPT !.imageUrl = NoImage, !.imageFile = NoImage,
              !.rooms = << >>, !.walls = << >>, !.doors = << >>, !.windows = << >>,
              !.detected = FALSE, !.detecting = FALSE, !.detectError = null]

handleClear(a) ==
    [a EXCEPT !.imageUrl = NoImage, !.imageFile = NoImage,
              !.rooms = << >>, !.walls = << >>, !.doors = << >>, !.windows = << >>,
              !.detected = FALSE, !.detecting = FALSE, !.detectError = null,
              !.generated = FALSE]

\* handleDetect, lines 57-60: whether the call gets past its early return,
\* and the cells it sets before it awaits detectFloorPlan
handleDetectStarts(a) == ~(a.imageUrl = NoImage /\ a.imageFile = NoImage)

handleDetectBegin(a) ==
    IF ~handleDetectStarts(a) THEN a
    ELSE [a EXCEPT !.detecting = TRUE, !.detectError = null, !.usedMock = FALSE]

\* handleDetect, lines 63-69 and 78: detectFloorPlan resolved with result
handleDetectResolved(a, result) ==
    [a EXCEPT !.rooms = result.rooms, !.walls = result.walls,
              !.doors = result.doors, !.windows = result.windows,
              !.usedMock = IF "usedMock" \in DOMAIN result THEN result.usedMock ELSE FALSE,
              !.detected = TRUE, !.generated = FALSE,
              !.detecting = FALSE]

\* handleDetect, lines 70-79: detectFloorPlan rejected; msg is the error's
\* message, <<"API_ERROR", status>> standing for `API_ERROR_${status}`
\* handleDetect's catch branch without the `finally` of line 78
handleDetectRejected_noFinally(a, msg) ==
    [a EXCEPT !.detectError = IF msg = <<"NO_API_KEY">>
                              THEN <<"add VITE_GEMINI_API_KEY">>
                              ELSE <<"error">> \o msg]

handleDetectRejected(a, msg) ==
    [a EXCEPT !.detectError = IF msg = <<"NO_API_KEY">>
                              THEN <<"add VITE_GEMINI_API_KEY">>
                              ELSE <<"error">> \o msg,
              !.detecting = FALSE]

\* the message of the Error detectFloorPlan rejects with
ErrorMessage(out) ==
    CASE out.kind = "NO_API_KEY" -> <<"NO_API_KEY">>
      [] out.kind = "API_ERROR"  -> <<"API_ERROR", out.status>>
      [] out.kind = "threw"      -> <<"Failed to fetch">>

handleDetectSettled(a, out) ==
    IF out.kind = "result" THEN handleDetectResolved(a, out.result[1])
    ELSE handleDetectRejected(a, ErrorMessage(out))

\* handleRoomUpdate without its confidence rule: every edit keeps confidence
handleRoomUpdate_keepsConfidence(rooms, id, field, value) ==
    [i \in 1..Len(rooms) |->
        IF rooms[i].id = id THEN [rooms[i] EXCEPT ![field] = value] ELSE rooms[i]]

\* handleRoomUpdate with `: "high"` for `: r.confidence`
handleRoomUpdate_resetsConfidence(rooms, id, field, value) ==
    [i \in 1..Len(rooms) |->
        IF rooms[i].id = id
        THEN [[rooms[i] EXCEPT ![field] = value]
                EXCEPT !.confidence = IF field = "width" \/ field = "height"
                                      THEN "manual" ELSE "high"]
        ELSE rooms[i]]

handleRoomUpdate(rooms, id, field, value) ==
    [i \in 1..Len(rooms) |->
        IF rooms[i].id = id
        THEN [[rooms[i] EXCEPT ![field] = value]
                EXCEPT !.confidence = IF field = "width" \/ field = "height"
                                      THEN "manual" ELSE rooms[i].confidence]
        ELSE rooms[i]]

\* handleWallUpdate without its `w.id === id` test
handleWallUpdate_everyWall(walls, id, field, value) ==
    [i \in 1..Len(walls) |-> [walls[i] EXCEPT ![field] = value]]

handleWallUpdate(walls, id, field, value) ==
    [i \in 1..Len(walls) |->
        IF walls[i].id = id THEN [walls[i] EXCEPT ![field] = value] ELSE walls[i]]

\* handleGenerate refusing to build the scene from the fallback dataset
handleGenerate_refusesMock(a) == [a EXCEPT !.generated = ~a.usedMock]

handleGenerate(a) == [a EXCEPT !.generated = TRUE]

\* floorPlanData with its rooms converted to the display unit
floorPlanData_inDisplayUnit(a) ==
    [rooms |-> [i \in 1..Len(a.rooms) |->
                   [a.rooms[i] EXCEPT !.width = a.rooms[i].width \div (UNITS[a.unit] \div 100)]],
     meta |-> [scale |-> a.scale, unit |-> a.unit]]

\* lines 98-101: the document the Sidebar exports (Sidebar lines 70-78)
floorPlanData(a) == [rooms |-> a.rooms, meta |-> [scale |-> a.scale, unit |-> a.unit]]

\* lines 183-259: which child fills the main area
View(a) ==
    IF a.detecting THEN "loading"
    ELSE IF a.detectError # null THEN "error"
    ELSE IF a.detected /\ ~a.generated THEN "review"
    ELSE IF a.imageUrl # NoImage /\ ~a.generated THEN "preview"
    ELSE IF a.generated THEN "scene" ELSE "placeholder"

(* ----------------------- unit conversion, display --------------------- *)
\* v * currentUnit.toMeter, v in hundredths of unit u (every toMeter is a
\* whole number of hundredths)
ToCanonical(v, u) == v * (UNITS[u] \div 100)

\* +(x).toFixed(2) of the quotient n / d, in hundredths (n >= 0, d > 0):
\* the whole part, and the remainder rounded half up
Round2(n, d) == 100 * (n \div d) + (200 * (n % d) + d) \div (2 * d)

\* parseFloat(text) || fallback
OrElse(v, fallback) == IF v = NaN \/ v = 0 THEN fallback ELSE v

\* what a user may leave in a number input, as parseFloat reads it
TypedValues == {NaN, 300}

MATERIALS == {"none", "tile", "wood", "vinyl", "concrete", "carpet"}

(* ----------------------- components/WallReview ------------------------ *)
\* lines 62-66, evaluated when WallReview mounts with the given rooms
ReviewInit(rooms) ==
    [editState |-> null, wallEditState |-> null,
     selectedId |-> IF Len(rooms) > 0 THEN Some(rooms[1].id) ELSE null,
     selectionType |-> "room", selectedWallId |-> null]

\* WallReview is not mounted
Unmounted == ReviewInit(<< >>)

IndexOf(seq, id) ==
    IF \E i \in 1..Len(seq) : seq[i].id = id
    THEN CHOOSE i \in 1..Len(seq) : seq[i].id = id /\ \A j \in 1..(i - 1) : seq[j].id # id
    ELSE 0

\* rooms.findIndex(r => r.id === selectedId) + 1, 0 when there is none
selectedIdx(rooms, r) ==
    IF r.selectedId = null THEN 0 ELSE IndexOf(rooms, r.selectedId[1])

swIdx(walls, r) ==
    IF r.selectedWallId = null THEN 0 ELSE IndexOf(walls, r.selectedWallId[1])

\* the room editor (lines 630-662) and the wall editor (lines 665-795) show
RoomEditorShown(a, r) == r.selectionType = "room" /\ selectedIdx(a.rooms, r) # 0
WallEditorShown(a, r) == r.selectionType = "wall" /\ swIdx(a.walls, r) # 0

\* getDisplay dividing by the metre's factor whatever the unit
getDisplay_inMetres(room, field, unit) ==
    IF field = "wallHeight" THEN Round2(room.wallHeight, UNITS["m"])
    ELSE Round2(IF field = "width" THEN room.width ELSE room.height, UNITS["m"])

getDisplay(room, field, unit) ==
    IF field = "wallHeight" THEN Round2(room.wallHeight, UNITS["m"])
    ELSE Round2(IF field = "width" THEN room.width ELSE room.height, UNITS[unit])

getWallThickness(wall) ==
    IF wall.thickness # undefined THEN wall.thickness
    ELSE IF wall.type = "exterior" THEN 250000 ELSE 150000

getWallHeight(wall) ==
    IF wall.wallHeight # undefined THEN wall.wallHeight ELSE DefaultWallHeight

\* lines 109, 141: `!isNaN(v) && v > 0`
isValidEntry(v) == v # NaN /\ v > 0

startEdit(r, roomId, field, val) ==
    [r EXCEPT !.editState = Some([roomId |-> roomId, field |-> field, value |-> val])]

\* commitEdit: the rooms after it (onRoomUpdate is handleRoomUpdate)
commitEditRooms(rooms, unit, r) ==
    IF r.editState = null THEN rooms
    ELSE LET e == r.editState[1]
             v == e.value
         IN  IF isValidEntry(v)
             THEN IF e.field = "wallHeight"
                  THEN handleRoomUpdate(rooms, e.roomId, "wallHeight", ToCanonical(v, "m"))
                  ELSE handleRoomUpdate(rooms, e.roomId, e.field, ToCanonical(v, unit))
             ELSE rooms

startWallEdit(r, wallId, field, val) ==
    [r EXCEPT !.wallEditState = Some([field |-> field, value |-> val, wallId |-> wallId])]

\* commitWallEdit: the walls after it (onWallUpdate is handleWallUpdate)
commitWallEditWalls(walls, r) ==
    IF r.wallEditState = null THEN walls
    ELSE LET e == r.wallEditState[1]
             v == e.value
         IN  IF isValidEntry(v)
             THEN IF e.field = "thickness"
                  THEN handleWallUpdate(walls, e.wallId, "thickness", ToCanonical(v, "cm"))
                  ELSE handleWallUpdate(walls, e.wallId, "wallHeight", ToCanonical(v, "m"))
             ELSE walls

selectRoom(r, id) ==
    [r EXCEPT !.selectedId = Some(id), !.selectionType = "room", !.selectedWallId = null]

\* selectWall without its setSelectedId(null)
selectWall_keepsRoom(r, id) ==
    [r EXCEPT !.selectedWallId = Some(id), !.selectionType = "wall"]

selectWall(r, id) ==
    [r EXCEPT !.selectedWallId = Some(id), !.selectionType = "wall", !.selectedId = null]

navigate(rooms, r, dir) ==
    LET next == selectedIdx(rooms, r) + dir IN
    IF next >= 1 /\ next <= Len(rooms)
    THEN [r EXCEPT !.selectedId = Some(rooms[next].id)] ELSE r

(* ----------------------- rendering and events ------------------------- *)
\* One run of the page: Index's cells and WallReview's. After an event the
\* page re-renders: WallReview keeps its cells while it stays mounted, and
\* starts from ReviewInit when it is mounted anew
Render(s, a2, r2) ==
    [app |-> a2,
     review |-> IF View(a2) # "review" THEN Unmounted
                ELSE IF View(s.app) = "review" THEN r2
                ELSE ReviewInit(a2.rooms)]

OnApp(s, a2) == Render(s, a2, s.review)
OnReview(s, r2) == Render(s, s.app, r2)

\* the result detectFloorPlan resolved with, usedMock forced to flag
Flagged(out, flag) ==
    IF out.kind # "result" THEN out
    ELSE LET r == out.result[1]
             bare == [f \in DOMAIN r \ {"usedMock"} |-> r[f]]
         IN  [out EXCEPT !.result =
                 Some(IF flag THEN bare @@ [usedMock |-> TRUE] ELSE bare)]

\* the same result with usedMock the other way round
Reflagged(out) ==
    IF out.kind # "result" THEN out
    ELSE Flagged(out, ~("usedMock" \in DOMAIN out.result[1]))

Event(op, id, field, was, stale) ==
    [id |-> id, field |-> field, op |-> op, was |-> was, stale |-> stale]

ConfidenceOf(rooms, id) ==
    IF IndexOf(rooms, id) = 0 THEN "" ELSE rooms[IndexOf(rooms, id)].confidence

Cur == [app |-> app, review |-> review]

\* both runs handle the event; the first run decides what the user can do
Step(next, nextTwin, ev) ==
    /\ app' = next.app
    /\ review' = next.review
    /\ twin' = nextTwin
    /\ last' = ev
    /\ UNCHANGED <<API_KEY, dfp, calc>>

\* URL.createObjectURL(file): an object URL no earlier upload had; only the
\* images of calls still in flight can be told apart from it
PendingImages == {c.image : c \in BagToSet(pending)}

FreshImage == CHOOSE i \in 1..(MaxPending + 1) :
                  /\ i \notin PendingImages
                  /\ \A j \in 1..(i - 1) : j \in PendingImages

(* Sidebar: the drop zone is rendered while there is no image *)
Upload ==
    /\ app.imageUrl = NoImage
    /\ Step(OnApp(Cur, handleImageUpload(app, FreshImage)),
            OnApp(twin, handleImageUpload(twin.app, FreshImage)),
            Event("upload", "", "", "", FALSE))
    /\ UNCHANGED <<pending, edits>>

(* Sidebar: the Remove button is rendered while there is an image *)
Clear ==
    /\ app.imageUrl # NoImage
    /\ Step(OnApp(Cur, handleClear(app)), OnApp(twin, handleClear(twin.app)),
            Event("clear", "", "", "", FALSE))
    /\ UNCHANGED <<pending, edits>>

(* Sidebar lines 181-198: the Detect button is rendered while there is an
   image and detected is false; it is not disabled while detecting *)
Detect ==
    /\ app.imageUrl # NoImage /\ ~app.detected
    /\ BagCardinality(pending) < MaxPending
    /\ pending' = IF handleDetectStarts(app)
                  THEN pending (+) SetToBag({[image |-> app.imageFile,
                                              before |-> Geometry(app)]})
                  ELSE pending
    /\ Step(OnApp(Cur, handleDetectBegin(app)), OnApp(twin, handleDetectBegin(twin.app)),
            Event("detect", "", "", "", FALSE))
    /\ UNCHANGED edits

\* the scripts of answers the page is run against
PageResponses ==
    {r \in Responses : r.kind \in {"ok", "reject"} \/ r.status \in {404, 429}}

(* a pending detectFloorPlan settles and handleDetect runs to its end *)
Settle ==
    \E c \in BagToSet(pending), r \in PageResponses :
        LET out == detectFloorPlan(API_KEY, TRUE, [k \in 1..Len(MODELS) |-> r]) IN
        /\ pending' = pending (-) SetToBag({c})
        /\ Step(OnApp(Cur, handleDetectSettled(app, out)),
                OnApp(twin, handleDetectSettled(twin.app, Reflagged(out))),
                Event(IF out.kind = "result" THEN "resolved" ELSE "rejected",
                      "", "", "", c.image # app.imageFile)
                    @@ [before |-> c.before])
        /\ UNCHANGED edits

(* Index header (part_000): the simple / pro toggle *)
SetMode ==
    \E m \in AppMode :
        /\ m # app.mode
        /\ Step(OnApp(Cur, [app EXCEPT !.mode = m]),
                OnApp(twin, [twin.app EXCEPT !.mode = m]),
                Event("ui", "", "", "", FALSE))
        /\ UNCHANGED <<pending, edits>>

\* Sidebar lines 181-370: the room list and the settings are rendered while
\* there is an image and detected is true
SidebarListShown(a) == a.imageUrl # NoImage /\ a.detected

\* Sidebar lines 250-273: onChange of a room's Width or Depth input
sidebarDimension(a, id, field, v) ==
    [a EXCEPT !.rooms = handleRoomUpdate(a.rooms, id, field,
                                         ToCanonical(OrElse(v, 0), a.unit))]

\* Sidebar lines 277-283: onChange of a room's wall height input (pro)
sidebarWallHeight(a, id, v) ==
    [a EXCEPT !.rooms = handleRoomUpdate(a.rooms, id, "wallHeight",
                                         ToCanonical(OrElse(v, 280), "m"))]

\* Sidebar lines 290-293: onChange of a room's material select (pro)
sidebarMaterial(a, id, m) ==
    [a EXCEPT !.rooms = handleRoomUpdate(a.rooms, id, "material", m)]

SidebarDimension ==
    \E i \in 1..Len(app.rooms), field \in {"width", "height"}, v \in TypedValues :
        LET id == app.rooms[i].id IN
        /\ SidebarListShown(app)
        /\ edits < MaxEdits
        /\ edits' = edits + 1
        /\ Step(OnApp(Cur, sidebarDimension(app, id, field, v)),
                OnApp(twin, sidebarDimension(twin.app, id, field, v)),
                Event("roomUpdate", id, field, ConfidenceOf(app.rooms, id), FALSE)
                    @@ [typed |-> v])
        /\ UNCHANGED pending

SidebarWallHeight ==
    \E i \in 1..Len(app.rooms), v \in TypedValues :
        LET id == app.rooms[i].id IN
        /\ SidebarListShown(app) /\ app.mode = "pro"
        /\ edits < MaxEdits
        /\ edits' = edits + 1
        /\ Step(OnApp(Cur, sidebarWallHeight(app, id, v)),
                OnApp(twin, sidebarWallHeight(twin.app, id, v)),
                Event("roomUpdate", id, "wallHeight", ConfidenceOf(app.rooms, id), FALSE)
                    @@ [typed |-> v])
        /\ UNCHANGED pending

SidebarMaterial ==
    \E i \in 1..Len(app.rooms), m \in {"tile"} :
        LET id == app.rooms[i].id IN
        /\ SidebarListShown(app) /\ app.mode = "pro"
        /\ edits < MaxEdits
        /\ edits' = edits + 1
        /\ Step(OnApp(Cur, sidebarMaterial(app, id, m)),
                OnApp(twin, sidebarMaterial(twin.app, id, m)),
                Event("roomUpdate", id, "material", ConfidenceOf(app.rooms, id), FALSE))
        /\ UNCHANGED pending

(* Sidebar lines 207-225: the unit buttons (pro) *)
UnitChange ==
    \E u \in DimensionUnit :
        /\ SidebarListShown(app) /\ app.mode = "pro"
        /\ u # app.unit
        /\ edits < MaxEdits
        /\ edits' = edits + 1
        /\ Step(OnApp(Cur, [app EXCEPT !.unit = u]),
                OnApp(twin, [twin.app EXCEPT !.unit = u]),
                Event("ui", "", "", "", FALSE))
        /\ UNCHANGED pending

(* Sidebar lines 333-340: the scale input, parseFloat(text) || 1 *)
ScaleChange ==
    \E v \in TypedValues :
        /\ SidebarListShown(app)
        /\ OrElse(v, 100) # app.scale
        /\ edits < MaxEdits
        /\ edits' = edits + 1
        /\ Step(OnApp(Cur, [app EXCEPT !.scale = OrElse(v, 100)]),
                OnApp(twin, [twin.app EXCEPT !.scale = OrElse(v, 100)]),
                Event("ui", "", "", "", FALSE))
        /\ UNCHANGED pending

(* Sidebar lines 375-388 (rendered while detected) and WallReview line 277 *)
Generate ==
    /\ app.detected
    /\ ~app.generated
    /\ Step(OnApp(Cur, handleGenerate(app)), OnApp(twin, handleGenerate(twin.app)),
            Event("ui", "", "", "", FALSE))
    /\ UNCHANGED <<pending, edits>>

(* Index lines 111-119 and RightPanel onBack: setGenerated(false) *)
Back ==
    /\ app.generated
    /\ Step(OnApp(Cur, [app EXCEPT !.generated = FALSE]),
            OnApp(twin, [twin.app EXCEPT !.generated = FALSE]),
            Event("ui", "", "", "", FALSE))
    /\ UNCHANGED <<pending, edits>>

(* Index lines 144-155: the banner's close button, setUsedMock(false) *)
DismissBanner ==
    /\ app.usedMock \/ twin.app.usedMock
    /\ Step(OnApp(Cur, [app EXCEPT !.usedMock = FALSE]),
            OnApp(twin, [twin.app EXCEPT !.usedMock = FALSE]),
            Event("ui", "", "", "", FALSE))
    /\ UNCHANGED <<pending, edits>>

(* Index lines 211-216: the error view's button, setDetectError(null) *)
DismissError ==
    /\ View(app) = "error"
    /\ Step(OnApp(Cur, [app EXCEPT !.detectError = null]),
            OnApp(twin, [twin.app EXCEPT !.detectError = null]),
            Event("ui", "", "", "", FALSE))
    /\ UNCHANGED <<pending, edits>>

(* WallReview line 534: a room of the list; lines 346, 568: a wall *)
reviewSelectRoom(s, id) == OnReview(s, selectRoom(s.review, id))
reviewSelectWall(s, id) == OnReview(s, selectWall(s.review, id))

SelectRoom ==
    \E i \in 1..Len(app.rooms) :
        /\ View(app) = "review"
        /\ Step(reviewSelectRoom(Cur, app.rooms[i].id),
                reviewSelectRoom(twin, app.rooms[i].id),
                Event("ui", "", "", "", FALSE))
        /\ UNCHANGED <<pending, edits>>

SelectWall ==
    \E i \in 1..Len(app.walls) :
        /\ View(app) = "review"
        /\ Step(reviewSelectWall(Cur, app.walls[i].id),
                reviewSelectWall(twin, app.walls[i].id),
                Event("ui", "", "", "", FALSE))
        /\ UNCHANGED <<pending, edits>>

(* WallReview lines 637-646: previous / next room, each disabled at its end *)
reviewNavigate(s, dir) == OnReview(s, navigate(s.app.rooms, s.review, dir))

Navigate ==
    \E dir \in {0 - 1, 1} :
        /\ View(app) = "review" /\ RoomEditorShown(app, review)
        /\ selectedIdx(app.rooms, review) # (IF dir = 1 THEN Len(app.rooms) ELSE 1)
        /\ Step(reviewNavigate(Cur, dir), reviewNavigate(twin, dir),
                Event("ui", "", "", "", FALSE))
        /\ UNCHANGED <<pending, edits>>

(* WallReview lines 697-714: previous / next wall *)
reviewNavigateWall(s, dir) ==
    LET next == swIdx(s.app.walls, s.review) + dir IN
    IF next >= 1 /\ next <= Len(s.app.walls)
    THEN OnReview(s, selectWall(s.review, s.app.walls[next].id)) ELSE s

NavigateWall ==
    \E dir \in {0 - 1, 1} :
        /\ View(app) = "review" /\ WallEditorShown(app, review)
        /\ swIdx(app.walls, review) # (IF dir = 1 THEN Len(app.walls) ELSE 1)
        /\ Step(reviewNavigateWall(Cur, dir), reviewNavigateWall(twin, dir),
                Event("ui", "", "", "", FALSE))
        /\ UNCHANGED <<pending, edits>>

\* EditableCell (lines 167-204) of the selected room: whether the cell of
\* `field` shows its input (it is being edited) or its value
CellEditing(a, r, field) ==
    /\ r.editState # null
    /\ r.editState[1].roomId = r.selectedId[1]
    /\ r.editState[1].field = field

reviewStartEdit(s, field) ==
    IF ~RoomEditorShown(s.app, s.review) THEN s
    ELSE LET room == s.app.rooms[selectedIdx(s.app.rooms, s.review)] IN
         OnReview(s, startEdit(s.review, room.id, field,
                               getDisplay(room, field, s.app.unit)))

RoomFields == {"width", "height", "wallHeight"}

StartEdit ==
    \E field \in RoomFields :
        /\ View(app) = "review" /\ RoomEditorShown(app, review)
        /\ ~CellEditing(app, review, field)
        /\ edits < MaxEdits
        /\ edits' = edits + 1
        /\ Step(reviewStartEdit(Cur, field), reviewStartEdit(twin, field),
                Event("ui", "", "", "", FALSE))
        /\ UNCHANGED pending

\* line 181: onChange of the cell's input
reviewTypeEdit(s, v) ==
    OnReview(s, IF s.review.editState = null THEN s.review
                ELSE [s.review EXCEPT !.editState[1].value = v])

TypeEdit ==
    \E field \in RoomFields, v \in TypedValues :
        /\ View(app) = "review" /\ RoomEditorShown(app, review)
        /\ CellEditing(app, review, field)
        /\ v # review.editState[1].value
        /\ Step(reviewTypeEdit(Cur, v), reviewTypeEdit(twin, v),
                Event("ui", "", "", "", FALSE))
        /\ UNCHANGED <<pending, edits>>

\* commitEdit, lines 106-117
commitEdit(s) ==
    Render(s, [s.app EXCEPT !.rooms = commitEditRooms(s.app.rooms, s.app.unit, s.review)],
              [s.review EXCEPT !.editState = null])

\* the length the open cell would commit is within MaxLength
commitFits(a, r) ==
    LET e == r.editState[1] IN
    isValidEntry(e.value) =>
        e.value <= MaxLength \div (UNITS[IF e.field = "wallHeight" THEN "m" ELSE a.unit] \div 100)

CommitEdit ==
    \E field \in RoomFields :
        /\ View(app) = "review" /\ RoomEditorShown(app, review)
        /\ CellEditing(app, review, field)
        /\ commitFits(app, review)
        /\ Step(commitEdit(Cur), commitEdit(twin),
                IF isValidEntry(review.editState[1].value)
                THEN Event("commitEdit", review.selectedId[1], field,
                           ConfidenceOf(app.rooms, review.selectedId[1]), FALSE)
                ELSE Event("ui", "", "", "", FALSE))
        /\ UNCHANGED <<pending, edits>>

\* lines 182, 188: Escape or the cancel button, setEditState(null)
cancelEdit(s) == OnReview(s, [s.review EXCEPT !.editState = null])

CancelEdit ==
    \E field \in RoomFields :
        /\ View(app) = "review" /\ RoomEditorShown(app, review)
        /\ CellEditing(app, review, field)
        /\ Step(cancelEdit(Cur), cancelEdit(twin),
                Event("ui", "", "", "", FALSE))
        /\ UNCHANGED <<pending, edits>>

\* the wall editor's cells (lines 733-790) of the selected wall
WallCellEditing(a, r, field) ==
    /\ r.wallEditState # null
    /\ r.wallEditState[1].wallId = r.selectedWallId[1]
    /\ r.wallEditState[1].field = field

\* lines 751, 783: the value the cell opens with, centimetres for thickness
\* (toFixed(0)) and metres for the height (toFixed(2))
wallDisplay(wall, field) ==
    IF field = "thickness" THEN 100 * (Round2(getWallThickness(wall), 100 * UNITS["cm"]))
    ELSE Round2(getWallHeight(wall), UNITS["m"])

reviewStartWallEdit(s, field) ==
    IF ~WallEditorShown(s.app, s.review) THEN s
    ELSE LET sw == s.app.walls[swIdx(s.app.walls, s.review)] IN
         OnReview(s, startWallEdit(s.review, sw.id, field, wallDisplay(sw, field)))

WallFields == {"thickness", "wallHeight"}

StartWallEdit ==
    \E field \in WallFields :
        /\ View(app) = "review" /\ WallEditorShown(app, review)
        /\ ~WallCellEditing(app, review, field)
        /\ edits < MaxEdits
        /\ edits' = edits + 1
        /\ Step(reviewStartWallEdit(Cur, field), reviewStartWallEdit(twin, field),
                Event("ui", "", "", "", FALSE))
        /\ UNCHANGED pending

reviewTypeWallEdit(s, v) ==
    OnReview(s, IF s.review.wallEditState = null THEN s.review
                ELSE [s.review EXCEPT !.wallEditState[1].value = v])

TypeWallEdit ==
    \E field \in WallFields, v \in TypedValues :
        /\ View(app) = "review" /\ WallEditorShown(app, review)
        /\ WallCellEditing(app, review, field)
        /\ v # review.wallEditState[1].value
        /\ Step(reviewTypeWallEdit(Cur, v), reviewTypeWallEdit(twin, v),
                Event("ui", "", "", "", FALSE))
        /\ UNCHANGED <<pending, edits>>

\* commitWallEdit, lines 138-149
commitWallEdit(s) ==
    Render(s, [s.app EXCEPT !.walls = commitWallEditWalls(s.app.walls, s.review)],
              [s.review EXCEPT !.wallEditState = null])

CommitWallEdit ==
    \E field \in WallFields :
        /\ View(app) = "review" /\ WallEditorShown(app, review)
        /\ WallCellEditing(app, review, field)
        /\ Step(commitWallEdit(Cur), commitWallEdit(twin),
                IF isValidEntry(review.wallEditState[1].value)
                THEN Event("commitWallEdit", review.selectedWallId[1], field, "", FALSE)
                ELSE Event("ui", "", "", "", FALSE))
        /\ UNCHANGED <<pending, edits>>

cancelWallEdit(s) == OnReview(s, [s.review EXCEPT !.wallEditState = null])

CancelWallEdit ==
    \E field \in WallFields :
        /\ View(app) = "review" /\ WallEditorShown(app, review)
        /\ WallCellEditing(app, review, field)
        /\ Step(cancelWallEdit(Cur), cancelWallEdit(twin),
                Event("ui", "", "", "", FALSE))
        /\ UNCHANGED <<pending, edits>>

\* lines 681-686: the EXT / INT button of the selected wall
toggleWallType(s) ==
    IF ~WallEditorShown(s.app, s.review) THEN s
    ELSE LET sw == s.app.walls[swIdx(s.app.walls, s.review)] IN
         OnApp(s, [s.app EXCEPT !.walls =
                      handleWallUpdate(s.app.walls, sw.id, "type",
                          IF sw.type = "exterior" THEN "interior" ELSE "exterior")])

ToggleWallType ==
    /\ View(app) = "review" /\ WallEditorShown(app, review)
    /\ edits < MaxEdits
    /\ edits' = edits + 1
    /\ Step(toggleWallType(Cur), toggleWallType(twin),
            Event("ui", "", "", "", FALSE))
    /\ UNCHANGED pending

(* ----------------------------- the page ------------------------------- *)
\* no function call is followed
CalcIdle == [phase |-> "idle"]

DfpIdle == [phase |-> "idle", readOk |-> TRUE,
            script |-> [k \in 1..Len(MODELS) |-> CHOOSE r \in Responses : r.kind = "reject"],
            out |-> null]

Init ==
    /\ API_KEY \in BOOLEAN
    /\ app = IndexInit
    /\ review = Unmounted
    /\ twin = [app |-> IndexInit, review |-> Unmounted]
    /\ pending = EmptyBag
    /\ last = Event("init", "", "", "", FALSE)
    /\ edits = 0
    /\ dfp = DfpIdle
    /\ calc = CalcIdle

Next ==
    \/ Upload \/ Clear \/ Detect \/ Settle
    \/ SetMode \/ SidebarDimension \/ SidebarWallHeight \/ SidebarMaterial
    \/ UnitChange \/ ScaleChange \/ Generate \/ Back
    \/ DismissBanner \/ DismissError
    \/ SelectRoom \/ SelectWall \/ Navigate \/ NavigateWall
    \/ StartEdit \/ TypeEdit \/ CommitEdit \/ CancelEdit
    \/ StartWallEdit \/ TypeWallEdit \/ CommitWallEdit \/ CancelWallEdit
    \/ ToggleWallType

Spec == Init /\ [][Next]_vars

\* the events that write detecting or start and end a detection call, with
\* those that take the page to and from the scene; a call that is pending
\* completes (handleDetect awaits it: the proviso under which the page
\* leaves its loading view)
NextLoading ==
    \/ Upload \/ Clear \/ Detect \/ Settle
    \/ Generate \/ Back \/ DismissBanner \/ DismissError

SpecLoading == Init /\ [][NextLoading]_vars /\ WF_vars(Settle)

(* ---------------------- detectFloorPlan on its own --------------------- *)
\* one call of detectFloorPlan, for every build (with or without a key),
\* every image (readable or not) and every script of per-model answers
InitDetect ==
    /\ API_KEY \in BOOLEAN
    /\ app = IndexInit
    /\ review = Unmounted
    /\ twin = [app |-> IndexInit, review |-> Unmounted]
    /\ pending = EmptyBag
    /\ last = Event("init", "", "", "", FALSE)
    /\ edits = 0
    /\ dfp \in [phase : {"called"}, readOk : BOOLEAN, script : Scripts, out : {null}]
    /\ calc = CalcIdle

DetectFloorPlanReturns ==
    /\ dfp.phase = "called"
    /\ dfp' = [dfp EXCEPT !.phase = "settled",
                          !.out = Some(detectFloorPlan(API_KEY, dfp.readOk, dfp.script))]
    /\ UNCHANGED <<API_KEY, app, review, twin, pending, last, edits, calc>>

NextDetect == DetectFloorPlanReturns

SpecDetect == InitDetect /\ [][NextDetect]_vars

(* ------------------- unit conversion on its own ------------------------ *)
\* Sidebar lines 232-233: displayW and displayH, the values of a room's
\* Width and Depth inputs
sidebarDisplay(room, field, unit) ==
    Round2(IF field = "width" THEN room.width ELSE room.height, UNITS[unit])

\* values typed into a width or depth field, in hundredths of the unit
RoundTripValues == {1, 33, 100, 305, 1234, 1640, 99999}

\* a value typed in a unit into a room's width or depth, in the Sidebar's
\* input or in WallReview's cell
InitUnits ==
    /\ API_KEY \in BOOLEAN
    /\ app = IndexInit
    /\ review = Unmounted
    /\ twin = [app |-> IndexInit, review |-> Unmounted]
    /\ pending = EmptyBag
    /\ last = Event("init", "", "", "", FALSE)
    /\ edits = 0
    /\ dfp = DfpIdle
    /\ calc \in [phase : {"typed"}, path : {"sidebar", "review"},
                 unit : DimensionUnit, field : {"width", "height"},
                 v : RoundTripValues,
                 rooms : {<< Room("r1", 4000000, 2000000, "high") >>}]

\* the input's onChange (Sidebar) or commitEdit (WallReview) stores the value
UnitsStore ==
    /\ calc.phase = "typed"
    /\ calc' = [calc EXCEPT
          !.phase = "stored",
          !.rooms =
              IF calc.path = "sidebar"
              THEN sidebarDimension([IndexInit EXCEPT !.rooms = calc.rooms,
                                                      !.unit = calc.unit],
                                    "r1", calc.field, calc.v).rooms
              ELSE commitEditRooms(calc.rooms, calc.unit,
                       startEdit(ReviewInit(calc.rooms), "r1", calc.field, calc.v))]
    /\ UNCHANGED <<API_KEY, app, review, twin, pending, last, edits, dfp>>

NextUnits == UnitsStore

SpecUnits == InitUnits /\ [][NextUnits]_vars

(* ----------------------- components/RightPanel ------------------------ *)
\* Scene lengths are micrometres like the rooms'; a normalised coordinate
\* (0..1 across the plan) is an integer number of thousandths.
PLAN_SIZE == 20

Max(a, b) == IF a >= b THEN a ELSE b
Min(a, b) == IF a <= b THEN a ELSE b

\* n * PLAN_SIZE - PLAN_SIZE / 2, n in thousandths
ToWorld(n) == n * PLAN_SIZE * (UNITS["m"] \div 1000) - (PLAN_SIZE * UNITS["m"]) \div 2

\* Math.sqrt on whole millimetres squared (exact on the lengths used here)
Sqrt(n) == CHOOSE r \in 0..29000 : r * r <= n /\ (r + 1) * (r + 1) > n

\* Math.sqrt(dx * dx + dz * dz), dx and dz whole millimetres
Hypot(dx, dz) ==
    1000 * Sqrt((dx \div 1000) * (dx \div 1000) + (dz \div 1000) * (dz \div 1000))

\* a DetectedWallSegment with its end points
Segment(id, type, thick, x1, y1, x2, y2) ==
    [id |-> id, wallHeight |-> undefined, type |-> type, thickness |-> thick,
     x1 |-> x1, y1 |-> y1, x2 |-> x2, y2 |-> y2]

\* WallSegmentMesh without Math.max(0.01, ...)
WallSegmentMesh_noClamp(wall, defaultWallHeight) ==
    LET x1 == ToWorld(wall.x1)
        z1 == ToWorld(wall.y1)
        x2 == ToWorld(wall.x2)
        z2 == ToWorld(wall.y2)
        thickness == getWallThickness(wall)
    IN  [position |-> <<(x1 + x2) \div 2, 0, (z1 + z2) \div 2>>,
         heading  |-> <<x2 - x1, z2 - z1>>,
         size     |-> <<Hypot(x2 - x1, z2 - z1) - (thickness \div 2) * 2,
                        IF wall.wallHeight # undefined THEN wall.wallHeight
                        ELSE defaultWallHeight,
                        thickness>>]

\* WallSegmentMesh without its miter compensation
WallSegmentMesh_noTrim(wall, defaultWallHeight) ==
    LET x1 == ToWorld(wall.x1)
        z1 == ToWorld(wall.y1)
        x2 == ToWorld(wall.x2)
        z2 == ToWorld(wall.y2)
        thickness == getWallThickness(wall)
    IN  [position |-> <<(x1 + x2) \div 2, 0, (z1 + z2) \div 2>>,
         heading  |-> <<x2 - x1, z2 - z1>>,
         size     |-> <<Max(10000, Hypot(x2 - x1, z2 - z1)),
                        IF wall.wallHeight # undefined THEN wall.wallHeight
                        ELSE defaultWallHeight,
                        thickness>>]

\* lines 162-207: the box a wall is drawn as: the group's position, the
\* direction (dx, dz) its rotation turns the box's length to, and the
\* box's size (effectiveLength, wallHeight, thickness)
WallSegmentMesh(wall, defaultWallHeight) ==
    LET x1 == ToWorld(wall.x1)
        z1 == ToWorld(wall.y1)
        x2 == ToWorld(wall.x2)
        z2 == ToWorld(wall.y2)
        dx == x2 - x1
        dz == z2 - z1
        rawLength == Hypot(dx, dz)
        wallHeight == IF wall.wallHeight # undefined THEN wall.wallHeight
                      ELSE defaultWallHeight
        thickness == IF wall.thickness # undefined THEN wall.thickness
                     ELSE IF wall.type = "exterior" THEN 250000 ELSE 150000
        halfT == thickness \div 2
        effectiveLength == Max(10000, rawLength - halfT * 2)
        cx == (x1 + x2) \div 2
        cz == (z1 + z2) \div 2
    IN  [position |-> <<cx, 0, cz>>,
         heading  |-> <<dx, dz>>,
         size     |-> <<effectiveLength, wallHeight, thickness>>]

(* ------------------------ one wall on its own -------------------------- *)
\* directions of length 5 (thousandths), axis-aligned and oblique
Headings == {<<5, 0>>, <<0, 5>>, <<0 - 5, 0>>, <<0, 0 - 5>>, <<3, 4>>, <<4, 0 - 3>>}

\* wall lengths in units of 5 thousandths (0.1 m): none, 0.1 m, 4 m
LengthSteps == {0, 1, 40}

\* the thickness a detected wall carries: absent, or clamped to 0.05..0.5
Thicknesses == {undefined, 50000, 150000, 250000}

WallStarts == {<<500, 500>>, <<300, 600>>}

WallCase(p, d, k, type, thick) ==
    [phase |-> "given",
     wall |-> Segment("w1", type, thick, p[1], p[2], p[1] + k * d[1], p[2] + k * d[2]),
     rawLength |-> k * 5 * PLAN_SIZE * (UNITS["m"] \div 1000),
     out |-> null]

InitWall ==
    /\ API_KEY \in BOOLEAN
    /\ app = IndexInit
    /\ review = Unmounted
    /\ twin = [app |-> IndexInit, review |-> Unmounted]
    /\ pending = EmptyBag
    /\ last = Event("init", "", "", "", FALSE)
    /\ edits = 0
    /\ dfp = DfpIdle
    /\ calc \in {WallCase(p, d, k, type, thick) :
                    p \in WallStarts, d \in Headings, k \in LengthSteps,
                    type \in {"exterior", "interior"}, thick \in Thicknesses}

WallBuilt ==
    /\ calc.phase = "given"
    /\ calc' = [calc EXCEPT !.phase = "built",
                            !.out = Some(WallSegmentMesh(calc.wall, DefaultWallHeight))]
    /\ UNCHANGED <<API_KEY, app, review, twin, pending, last, edits, dfp>>

NextWall == WallBuilt

SpecWall == InitWall /\ [][NextWall]_vars

(* ------------------------ two walls that meet -------------------------- *)
\* the axis-aligned directions, of length 1 (thousandth)
AxisDirs == {<<1, 0>>, <<0, 1>>, <<0 - 1, 0>>, <<0, 0 - 1>>}

Perpendicular(d, e) == d[1] * e[1] + d[2] * e[2] = 0

\* wall lengths in thousandths: 2 m and 4 m
JunctionLengths == {100, 200}

\* the point the two walls meet at
JunctionPoint == <<500, 500>>

\* a wall from p along d, its end points swapped when flip
Drawn(id, thick, p, d, len, flip) ==
    LET q == <<p[1] + len * d[1], p[2] + len * d[2]>> IN
    IF flip THEN Segment(id, IF thick = 250000 THEN "exterior" ELSE "interior",
                         thick, q[1], q[2], p[1], p[2])
    ELSE Segment(id, IF thick = 250000 THEN "exterior" ELSE "interior",
                 thick, p[1], p[2], q[1], q[2])

\* wall a and, perpendicular to it, wall b ending on it: at an end point of
\* a ("corner") or at the middle of a's centre line ("tee")
JunctionCase(kind, da, db, la, lb, ta, tb, fa, fb) ==
    LET J == JunctionPoint
        startA == IF kind = "corner" THEN J
                  ELSE <<J[1] - (la \div 2) * da[1], J[2] - (la \div 2) * da[2]>>
    IN  [phase |-> "given", kind |-> kind,
         walls |-> << Drawn("w1", ta, startA, da, la, fa),
                      Drawn("w2", tb, J, db, lb, fb) >>,
         lengths |-> <<la * PLAN_SIZE * (UNITS["m"] \div 1000),
                       lb * PLAN_SIZE * (UNITS["m"] \div 1000)>>,
         out |-> << >>]

InitJunction ==
    /\ API_KEY \in BOOLEAN
    /\ app = IndexInit
    /\ review = Unmounted
    /\ twin = [app |-> IndexInit, review |-> Unmounted]
    /\ pending = EmptyBag
    /\ last = Event("init", "", "", "", FALSE)
    /\ edits = 0
    /\ dfp = DfpIdle
    /\ calc \in {JunctionCase(kind, dd[1], dd[2], la, lb, ta, tb, fa, fb) :
                    kind \in {"corner", "tee"},
                    dd \in {e \in AxisDirs \X AxisDirs : Perpendicular(e[1], e[2])},
                    la \in JunctionLengths, lb \in JunctionLengths,
                    ta \in {150000, 250000}, tb \in {150000, 250000},
                    fa \in BOOLEAN, fb \in BOOLEAN}

\* Scene lines 510-516: every wall drawn by WallSegmentMesh
JunctionBuilt ==
    /\ calc.phase = "given"
    /\ calc' = [calc EXCEPT
          !.phase = "built",
          !.out = [i \in 1..Len(calc.walls) |->
                      WallSegmentMesh(calc.walls[i], DefaultWallHeight)]]
    /\ UNCHANGED <<API_KEY, app, review, twin, pending, last, edits, dfp>>

NextJunction == JunctionBuilt

SpecJunction == InitJunction /\ [][NextJunction]_vars

\* lines 200-207: the ground rectangle of an axis-aligned wall's box, its
\* length along the wall and its thickness across: <<xlo, xhi, zlo, zhi>>
Footprint(solid) ==
    LET cx == solid.position[1]
        cz == solid.position[3]
        halfL == solid.size[1] \div 2
        halfT == solid.size[3] \div 2
    IN  IF solid.heading[2] = 0
        THEN <<cx - halfL, cx + halfL, cz - halfT, cz + halfT>>
        ELSE <<cx - halfT, cx + halfT, cz - halfL, cz + halfL>>

(* --------------------------- room anchors ------------------------------ *)
\* Math.ceil(Math.sqrt(n))
CeilSqrt(n) == CHOOSE c \in 0..n : c * c >= n /\ (c = 0 \/ (c - 1) * (c - 1) < n)

\* lines 406: r.bbox is there
HasBbox(r) == "bbox" \in DOMAIN r

bboxAnchor_unscaled(r, scale) ==
    LET bbox == r.bbox
        cx == (2 * bbox.x + bbox.w) * PLAN_SIZE * (UNITS["m"] \div 2000)
                 - (PLAN_SIZE * UNITS["m"]) \div 2
        cz == (2 * bbox.y + bbox.h) * PLAN_SIZE * (UNITS["m"] \div 2000)
                 - (PLAN_SIZE * UNITS["m"]) \div 2
    IN  <<cx, 0, cz>>

\* lines 410-415: the centre of the box, in world coordinates, times scale
\* (bbox in thousandths of the plan, scale in hundredths)
bboxAnchor(r, scale) ==
    LET bbox == r.bbox
        cx == (2 * bbox.x + bbox.w) * PLAN_SIZE * (UNITS["m"] \div 2000)
                 - (PLAN_SIZE * UNITS["m"]) \div 2
        cz == (2 * bbox.y + bbox.h) * PLAN_SIZE * (UNITS["m"] \div 2000)
                 - (PLAN_SIZE * UNITS["m"]) \div 2
    IN  <<(cx \div 100) * scale, 0, (cz \div 100) * scale>>

\* lines 425-433: the for loop, j and i counted from 0, ox carried along
RECURSIVE gridWalk(_, _, _, _, _, _)
gridWalk(rooms, scale, cols, i, j, ox) ==
    LET start == IF j % cols = 0 /\ j > 0 THEN 0 ELSE ox
        w == (rooms[j + 1].width \div 100) * scale
    IN  IF j = i THEN start + w \div 2
        ELSE gridWalk(rooms, scale, cols, i, j + 1, start + w + 800000)

gridAnchor_noRestart(rooms, scale, i) ==
    LET cols == CeilSqrt(Len(rooms))
        row == i \div cols
        x == gridWalk(rooms, scale, Len(rooms) + 1, i, 0, 0)
        z == row * 8000000
    IN  <<x - 5000000, 0, z - (Len(rooms) \div cols) * 4000000>>

\* lines 420-434: the anchor of room i (from 0) in the fallback grid
gridAnchor(rooms, scale, i) ==
    LET cols == CeilSqrt(Len(rooms))
        row == i \div cols
        x == gridWalk(rooms, scale, cols, i, 0, 0)
        z == row * 8000000
    IN  <<x - 5000000, 0, z - (Len(rooms) \div cols) * 4000000>>

\* lines 401-436
computePositions(rooms, scale) ==
    LET hasBbox == \A k \in 1..Len(rooms) : HasBbox(rooms[k]) IN
    IF hasBbox
    THEN [k \in 1..Len(rooms) |-> bboxAnchor(rooms[k], scale)]
    ELSE [k \in 1..Len(rooms) |-> gridAnchor(rooms, scale, k - 1)]

BBox(x, y, w, h) == [x |-> x, y |-> y, w |-> w, h |-> h]

\* the rooms a list is made of: detected ones with their box, rooms without
RoomKinds ==
    { Room("r", 4000000, 2000000, "high") @@ [bbox |-> BBox(0, 0, 500, 500)],
      Room("r", 4000000, 2000000, "low") @@ [bbox |-> BBox(500, 0, 500, 500)],
      Room("r", 3000000, 3500000, "manual") @@ [bbox |-> BBox(250, 400, 300, 350)],
      Room("r", 2000000, 2000000, "manual"),
      Room("r", 5500000, 3300000, "high") }

RoomIds == <<"r1", "r2", "r3", "r4", "r5", "r6", "r7">>

RoomLists ==
    UNION { { [k \in 1..n |-> [f[k] EXCEPT !.id = RoomIds[k]]] :
                f \in [1..n -> RoomKinds] } : n \in 0..MaxRooms }

\* the scale prop, in hundredths
Scales == {50, 100, 200}

InitPositions ==
    /\ API_KEY \in BOOLEAN
    /\ app = IndexInit
    /\ review = Unmounted
    /\ twin = [app |-> IndexInit, review |-> Unmounted]
    /\ pending = EmptyBag
    /\ last = Event("init", "", "", "", FALSE)
    /\ edits = 0
    /\ dfp = DfpIdle
    /\ calc \in [phase : {"given"}, rooms : RoomLists, scale : Scales,
                 calls : {0}, out : {<< >>}]

\* Scene line 466: every render computes the anchors anew
PositionsComputed ==
    /\ calc.calls < MaxCalls
    /\ calc' = [calc EXCEPT
          !.phase = "placed",
          !.calls = calc.calls + 1,
          !.out = computePositions(calc.rooms, calc.scale)]
    /\ UNCHANGED <<API_KEY, app, review, twin, pending, last, edits, dfp>>

NextPositions == PositionsComputed

SpecPositions == InitPositions /\ [][NextPositions]_vars

(* ------------------------- doors and windows --------------------------- *)
\* DetectedDoor / DetectedWindow: bbox in thousandths, widthM in micrometres
Opening(id, bbox, widthM) == [id |-> id, bbox |-> bbox, widthM |-> widthM]

\* the largest member of a non-empty set of numbers
MaxOf(S) == CHOOSE m \in S : \A n \in S : n <= m

defaultWallHeight_ofRooms(rooms) ==
    IF rooms = << >> THEN 2800000
    ELSE MaxOf({ IF rooms[k].wallHeight = undefined THEN 2800000
                 ELSE rooms[k].wallHeight : k \in 1..Len(rooms) })

\* Scene line 469: Math.max(...rooms.map(r => r.wallHeight ?? 2.8), 2.8)
defaultWallHeight(rooms) ==
    MaxOf({ IF rooms[k].wallHeight = undefined THEN 2800000
            ELSE rooms[k].wallHeight : k \in 1..Len(rooms) } \cup {2800000})

DoorMesh_tieHorizontal(door, wallHeight) ==
    LET cx == (2 * door.bbox.x + door.bbox.w) * PLAN_SIZE * (UNITS["m"] \div 2000)
                 - (PLAN_SIZE * UNITS["m"]) \div 2
        cz == (2 * door.bbox.y + door.bbox.h) * PLAN_SIZE * (UNITS["m"] \div 2000)
                 - (PLAN_SIZE * UNITS["m"]) \div 2
        isHorizontal == door.bbox.w * PLAN_SIZE >= door.bbox.h * PLAN_SIZE
    IN  [width |-> Max(door.widthM, 800000),
         height |-> Min((wallHeight * 85) \div 100, 2100000),
         position |-> <<cx, 0, cz>>,
         rotY |-> IF isHorizontal THEN 0 ELSE 90]

\* lines 258-281: the group's position and rotation (degrees), the opening's
\* width and height
DoorMesh(door, wallHeight) ==
    LET cx == (2 * door.bbox.x + door.bbox.w) * PLAN_SIZE * (UNITS["m"] \div 2000)
                 - (PLAN_SIZE * UNITS["m"]) \div 2
        cz == (2 * door.bbox.y + door.bbox.h) * PLAN_SIZE * (UNITS["m"] \div 2000)
                 - (PLAN_SIZE * UNITS["m"]) \div 2
        doorW == Max(door.widthM, 800000)
        doorH == Min((wallHeight * 85) \div 100, 2100000)
        bboxW == door.bbox.w * PLAN_SIZE
        bboxH == door.bbox.h * PLAN_SIZE
        isHorizontal == bboxW > bboxH
        rotY == IF isHorizontal THEN 0 ELSE 90
    IN  [width |-> doorW, height |-> doorH,
         position |-> <<cx, 0, cz>>, rotY |-> rotY]

\* lines 323-344
WindowMesh(win, wallHeight) ==
    LET cx == (2 * win.bbox.x + win.bbox.w) * PLAN_SIZE * (UNITS["m"] \div 2000)
                 - (PLAN_SIZE * UNITS["m"]) \div 2
        cz == (2 * win.bbox.y + win.bbox.h) * PLAN_SIZE * (UNITS["m"] \div 2000)
                 - (PLAN_SIZE * UNITS["m"]) \div 2
        winW == Max(win.widthM, 600000)
        winH == Min((wallHeight * 45) \div 100, 1200000)
        sillY == (wallHeight * 35) \div 100
        bboxW == win.bbox.w * PLAN_SIZE
        bboxH == win.bbox.h * PLAN_SIZE
        isHorizontal == bboxW > bboxH
        rotY == IF isHorizontal THEN 0 ELSE 90
    IN  [width |-> winW, height |-> winH,
         position |-> <<cx, sillY, cz>>, rotY |-> rotY]

\* boxes wider than high, higher than wide, and square
OpeningBoxes == {BBox(200, 440, 40, 35), BBox(570, 300, 10, 45), BBox(700, 100, 40, 40)}

OpeningWidths == {500000, 900000}

\* the wallHeight of the rooms of the scene (optional on a room)
WallHeights == {undefined, 2400000, 2800000, 3500000}

HeightLists ==
    {<< >>} \cup {<<h>> : h \in WallHeights}
            \cup {<<h, g>> : h \in WallHeights, g \in {undefined, 3000000}}

RoomsOfHeights(hs) ==
    [k \in 1..Len(hs) |->
        [Room(RoomIds[k], 4000000, 2000000, "high") EXCEPT !.wallHeight = hs[k]]]

InitOpenings ==
    /\ API_KEY \in BOOLEAN
    /\ app = IndexInit
    /\ review = Unmounted
    /\ twin = [app |-> IndexInit, review |-> Unmounted]
    /\ pending = EmptyBag
    /\ last = Event("init", "", "", "", FALSE)
    /\ edits = 0
    /\ dfp = DfpIdle
    /\ calc \in {[phase |-> "given", rooms |-> RoomsOfHeights(hs), scale |-> sc,
                  door |-> Opening("d1", b, w), win |-> Opening("win1", c, w),
                  out |-> << >>] :
                    hs \in HeightLists, sc \in Scales, b \in OpeningBoxes,
                    c \in OpeningBoxes, w \in OpeningWidths}

\* Scene lines 468-469, 519-535: doors and windows drawn with the scene's
\* default wall height
OpeningsBuilt ==
    /\ calc.phase = "given"
    /\ calc' = [calc EXCEPT
          !.phase = "built",
          !.out = [door |-> DoorMesh(calc.door, defaultWallHeight(calc.rooms)),
                   win |-> WindowMesh(calc.win, defaultWallHeight(calc.rooms))]]
    /\ UNCHANGED <<API_KEY, app, review, twin, pending, last, edits, dfp>>

NextOpenings == OpeningsBuilt

SpecOpenings == InitOpenings /\ [][NextOpenings]_vars

(* ------------------- walls parsed, then edited ------------------------- *)
\* a wall of a model's answer: type and thicknessRatio (in thousandths of
\* the image) may be missing
RawWall(id, type, ratio) == [id |-> id, type |-> type, thicknessRatio |-> ratio]

parseWall_noClamp(w) ==
    LET thicknessM == IF w.thicknessRatio # null
                      THEN w.thicknessRatio[1] * PLAN_SIZE * (UNITS["m"] \div 1000)
                      ELSE IF w.type = Some("exterior") THEN 250000 ELSE 150000
    IN  Wall(w.id, IF w.type # null THEN w.type[1] ELSE "interior", thicknessM)
           @@ [thicknessRatio |-> w.thicknessRatio]

\* tryModel lines 466-477: the wall kept for a wall of the answer
parseWall(w) ==
    LET thicknessM == IF w.thicknessRatio # null
                      THEN Max(50000, Min(500000,
                              w.thicknessRatio[1] * PLAN_SIZE * (UNITS["m"] \div 1000)))
                      ELSE IF w.type = Some("exterior") THEN 250000 ELSE 150000
    IN  Wall(w.id, IF w.type # null THEN w.type[1] ELSE "interior", thicknessM)
           @@ [thicknessRatio |-> w.thicknessRatio]

\* thicknessRatio of an answer: missing, negative, zero, below, within and
\* above the clamp's range
Ratios == {null, Some(0 - 5), Some(0), Some(1), Some(13), Some(30)}

RawTypes == {null, Some("exterior"), Some("interior")}

\* the texts typed into a wall cell: unparsable, zero, negative, 0.01, 3
WallEntries == {NaN, 0, 0 - 100, 1, 300}

\* Index after an upload and a detection that resolved with `walls`
Detected(walls) ==
    LET a == handleDetectResolved(
                handleDetectBegin(handleImageUpload(IndexInit, 1)),
                [ParsedResult("plan") EXCEPT !.walls = walls])
    IN  Render([app |-> IndexInit, review |-> Unmounted], a, Unmounted)

InitThickness ==
    /\ API_KEY = TRUE
    /\ \E type \in RawTypes, ratio \in Ratios :
          LET raw == << RawWall("w1", Some("exterior"), null),
                        RawWall("w2", type, ratio) >>
              s == Detected([k \in 1..2 |-> parseWall(raw[k])])
          IN  /\ app = s.app
              /\ review = s.review
              /\ twin = s
              /\ calc = [phase |-> "parsed", raw |-> raw]
    /\ pending = EmptyBag
    /\ last = Event("init", "", "", "", FALSE)
    /\ edits = 0
    /\ dfp = DfpIdle

\* WallReview lines 745-790: a text typed into the open wall cell
TypeWallEntry ==
    \E field \in WallFields, v \in WallEntries :
        /\ View(app) = "review" /\ WallEditorShown(app, review)
        /\ WallCellEditing(app, review, field)
        /\ v # review.wallEditState[1].value
        /\ Step(reviewTypeWallEdit(Cur, v), reviewTypeWallEdit(twin, v),
                Event("ui", "", "", "", FALSE))
        /\ UNCHANGED <<pending, edits>>

NextThickness ==
    \/ SelectWall
    \/ StartWallEdit \/ TypeWallEntry \/ CommitWallEdit \/ CancelWallEdit
    \/ ToggleWallType

SpecThickness == InitThickness /\ [][NextThickness]_vars

(* ------------------ WallReview's resize observation -------------------- *)
\* WallReview with the cells and the effect of lines 67-87: `live` are the
\* ResizeObservers that observe an element (each with the image it was
\* created for), `held` the cleanup React keeps for the effect's last run
ObserverIdle ==
    [phase |-> "observer", mounted |-> FALSE, imageUrl |-> NoImage,
     imgSize |-> <<1, 1>>, live |-> {}, held |-> null, created |-> 0]

\* the rendered sizes of the image
ClientSizes == {<<800, 600>>, <<400, 300>>, <<1200, 900>>}

ImageUrls == {NoImage, 1, 2, 3}

\* lines 76-87 with `return () => ro.disconnect()` left out
effect_noCleanup(c, complete, size) ==
    IF c.imageUrl = NoImage THEN [c EXCEPT !.held = null]
    ELSE LET ro == [id |-> c.created + 1, image |-> c.imageUrl] IN
         [c EXCEPT !.imgSize = IF complete THEN size ELSE c.imgSize,
                   !.live = c.live \cup {ro},
                   !.held = null,
                   !.created = c.created + 1]

\* lines 76-87: one run of the effect; imgRef.current is the <img>, which
\* line 292 renders only for an imageUrl; `complete` is el.complete and
\* `size` the element's client size
effect(c, complete, size) ==
    IF c.imageUrl = NoImage THEN [c EXCEPT !.held = null]
    ELSE LET ro == [id |-> c.created + 1, image |-> c.imageUrl] IN
         [c EXCEPT !.imgSize = IF complete THEN size ELSE c.imgSize,
                   !.live = c.live \cup {ro},
                   !.held = Some(ro),
                   !.created = c.created + 1]

\* line 86: the cleanup the last run returned, if it returned one
cleanup(c) ==
    IF c.held = null THEN c
    ELSE [c EXCEPT !.live = c.live \ {c.held[1]}, !.held = null]

InitObserver ==
    /\ API_KEY \in BOOLEAN
    /\ app = IndexInit
    /\ review = Unmounted
    /\ twin = [app |-> IndexInit, review |-> Unmounted]
    /\ pending = EmptyBag
    /\ last = Event("init", "", "", "", FALSE)
    /\ edits = 0
    /\ dfp = DfpIdle
    /\ calc = ObserverIdle

\* Index lines 218-229: WallReview is rendered; its effect runs
MountReview ==
    \E url \in ImageUrls, complete \in BOOLEAN, size \in ClientSizes :
        /\ ~calc.mounted
        /\ calc.created < MaxObservers
        /\ calc' = effect([calc EXCEPT !.mounted = TRUE, !.imageUrl = url,
                                       !.imgSize = <<1, 1>>],
                          complete, size)
        /\ UNCHANGED <<API_KEY, app, review, twin, pending, last, edits, dfp>>

\* line 87, deps [imageUrl]: a render with another imageUrl runs the
\* cleanup of the last run, then the effect
ImageChanged ==
    \E url \in ImageUrls, complete \in BOOLEAN, size \in ClientSizes :
        /\ calc.mounted
        /\ url # calc.imageUrl
        /\ calc.created < MaxObservers
        /\ calc' = effect([cleanup(calc) EXCEPT !.imageUrl = url], complete, size)
        /\ UNCHANGED <<API_KEY, app, review, twin, pending, last, edits, dfp>>

\* lines 79-81, 84: every connected observer calls measure
Resized ==
    \E size \in ClientSizes :
        /\ calc.mounted
        /\ calc.live # {}
        /\ size # calc.imgSize
        /\ calc' = [calc EXCEPT !.imgSize = size]
        /\ UNCHANGED <<API_KEY, app, review, twin, pending, last, edits, dfp>>

\* WallReview leaves the page: the cleanup runs, the cells are gone
UnmountReview ==
    /\ calc.mounted
    /\ calc' = [cleanup(calc) EXCEPT !.mounted = FALSE, !.imageUrl = NoImage,
                                     !.imgSize = <<1, 1>>]
    /\ UNCHANGED <<API_KEY, app, review, twin, pending, last, edits, dfp>>

NextObserver == MountReview \/ ImageChanged \/ Resized \/ UnmountReview

SpecObserver == InitObserver /\ [][NextObserver]_vars

(* ------------------- Index's handlers, called directly ----------------- *)
\* the ids handleRoomUpdate / handleWallUpdate are called with: those of
\* the rooms and walls of the datasets, and one that names nothing
CalledIds == {"r2", "room_1", "w2", "nothing"}

\* the field and value of a room update: metres, or a material
RoomUpdates ==
    {<<"width", 3000000>>, <<"wallHeight", 3000000>>, <<"material", "tile">>}

WallUpdates ==
    {<<"thickness", 100000>>, <<"wallHeight", 3000000>>, <<"type", "exterior">>}

\* handleImageUpload, lines 30-41
HandlerUpload ==
    /\ app' = handleImageUpload(app, 1)
    /\ last' = Event("upload", "", "", "", FALSE)
    /\ UNCHANGED <<API_KEY, review, twin, pending, edits, dfp, calc>>

\* handleClear, lines 43-54
HandlerClear ==
    /\ app' = handleClear(app)
    /\ last' = Event("clear", "", "", "", FALSE)
    /\ UNCHANGED <<API_KEY, review, twin, pending, edits, dfp, calc>>

\* handleDetect, lines 56-80, its detectFloorPlan call resolved
HandlerDetect ==
    \E result \in {MOCK_RESULT @@ [usedMock |-> TRUE]}
                     \cup {ParsedResult(n) : n \in ParsedNames} :
        /\ handleDetectStarts(app)
        /\ app' = handleDetectResolved(handleDetectBegin(app), result)
        /\ last' = Event("resolved", "", "", "", FALSE)
        /\ UNCHANGED <<API_KEY, review, twin, pending, edits, dfp, calc>>

\* handleRoomUpdate, lines 82-86
HandlerRoomUpdate ==
    \E id \in CalledIds, u \in RoomUpdates :
        /\ app' = [app EXCEPT !.rooms = handleRoomUpdate(app.rooms, id, u[1], u[2])]
        /\ last' = Event("roomUpdate", id, u[1], ConfidenceOf(app.rooms, id), FALSE)
        /\ UNCHANGED <<API_KEY, review, twin, pending, edits, dfp, calc>>

\* handleWallUpdate, lines 88-92
HandlerWallUpdate ==
    \E id \in CalledIds, u \in WallUpdates :
        /\ app' = [app EXCEPT !.walls = handleWallUpdate(app.walls, id, u[1], u[2])]
        /\ last' = Event("wallUpdate", id, u[1], "", FALSE)
        /\ UNCHANGED <<API_KEY, review, twin, pending, edits, dfp, calc>>

NextHandlers ==
    \/ HandlerUpload \/ HandlerClear \/ HandlerDetect
    \/ HandlerRoomUpdate \/ HandlerWallUpdate

SpecHandlers == Init /\ [][NextHandlers]_vars

(* ============================ properties ============================== *)
\* the event handled last called handleRoomUpdate for room last.id, field
\* last.field, and the room's confidence was last.was before it
RoomEdited == last.op \in {"roomUpdate", "commitEdit"}

\* the event handled last called handleWallUpdate for wall last.id
WallEdited == last.op = "commitWallEdit"

ManualIds(rooms) == {rooms[i].id : i \in {j \in 1..Len(rooms) : rooms[j].confidence = "manual"}}

GeometryEmpty(a) ==
    a.rooms = << >> /\ a.walls = << >> /\ a.doors = << >> /\ a.windows = << >>

\* C1: when a room's confidence is high or low, an edit of its width or
\* height (handleRoomUpdate with that field) leaves it with confidence
\* manual, and an edit of any other field leaves its confidence as it was.
C1_ConfidenceDowngrade ==
    (RoomEdited /\ last.was \in {"high", "low"}) =>
        ConfidenceOf(app.rooms, last.id) =
            (IF last.field \in {"width", "height"} THEN "manual" ELSE last.was)

\* a low room's width was committed in WallReview and the room is manual
C1_Witness ==
    /\ last.op = "commitEdit" /\ last.field = "width" /\ last.was = "low"
    /\ ConfidenceOf(app.rooms, last.id) = "manual"

\* a wall carries a manual mark
WallIsManual(w) == "confidence" \in DOMAIN w /\ w.confidence = "manual"

\* C2: any user edit to width, height, thickness or wallHeight moves the
\* edited room or wall to manual: an edit of a high or low room's width,
\* height or wallHeight leaves the room manual, and a committed thickness
\* or wallHeight of a wall leaves that wall marked manual.
C2_AnyEditMarksManual ==
    /\ (RoomEdited /\ last.was \in {"high", "low"}
            /\ last.field \in {"width", "height", "wallHeight"})
        => ConfidenceOf(app.rooms, last.id) = "manual"
    /\ WallEdited =>
        \A i \in 1..Len(app.walls) :
            app.walls[i].id = last.id => WallIsManual(app.walls[i])

\* C3: once a room's confidence is manual it stays manual (and the room
\* stays) through every event but the three that replace the room
\* collection: an image upload, a clear, a detection that resolved.
C3_ManualIsTerminal ==
    [][last'.op \notin {"upload", "clear", "resolved"}
          => ManualIds(app.rooms) \subseteq ManualIds(app'.rooms)]_vars

\* a room that was manual already was edited again, in a field that does
\* not set confidence, and is manual still
C3_Witness ==
    /\ RoomEdited /\ last.was = "manual" /\ last.field \in {"wallHeight", "material"}
    /\ last.id \in ManualIds(app.rooms)

\* C4: right after an image upload or a clear, whatever came before, rooms,
\* walls, doors and windows are empty and detected and generated are false.
C4_UploadAndClearReset ==
    last.op \in {"upload", "clear"} =>
        GeometryEmpty(app) /\ ~app.detected /\ ~app.generated

\* a clear that followed edits of detected geometry
C4_Witness ==
    /\ last.op = "clear" /\ edits > 0
    /\ GeometryEmpty(app) /\ ~app.detected /\ ~app.generated

\* C5: when the image was cleared or replaced while a detection request was
\* pending, the request's result is discarded as it completes: rooms, walls,
\* doors and windows are not populated from it and detected does not become
\* true.
C5_StaleResultDiscarded ==
    [][(last'.op = "resolved" /\ last'.stale)
          => /\ app'.rooms = app.rooms /\ app'.walls = app.walls
             /\ app'.doors = app.doors /\ app'.windows = app.windows
             /\ app'.detected = app.detected]_vars

\* C6: at most one detection request is in flight at any time.
C6_AtMostOneInFlight == BagCardinality(pending) <= 1

\* C7: whenever a detection request is pending the main area shows the
\* loading view (so neither WallReview nor the 3-D scene is rendered).
C7_LoadingWhilePending == pending # EmptyBag => View(app) = "loading"

\* C8: two runs given detection results that differ in usedMock only, and
\* then the same user actions, agree at every step on rooms, walls, doors,
\* windows, detected, generated and the main view; they differ in the
\* banner flag usedMock alone.
C8_UsedMockInformational ==
    /\ Geometry(app) = Geometry(twin.app)
    /\ View(app) = View(twin.app)
    /\ [app EXCEPT !.usedMock = FALSE] = [twin.app EXCEPT !.usedMock = FALSE]
    /\ review = twin.review

\* a room was edited in two runs whose banner flags differ
C8_Witness ==
    /\ RoomEdited /\ last.field = "width"
    /\ app.usedMock # twin.app.usedMock
    /\ app.rooms # << >>

\* the answers detectFloorPlan gets to see: those up to the first that is
\* not a 404, all of them when there is none
LastAsked(script) ==
    IF \E k \in 1..Len(MODELS) : ~(script[k].kind = "http" /\ script[k].status = 404)
    THEN CHOOSE k \in 1..Len(MODELS) :
             /\ ~(script[k].kind = "http" /\ script[k].status = 404)
             /\ \A j \in 1..(k - 1) : script[j].kind = "http" /\ script[j].status = 404
    ELSE Len(MODELS)

\* the status the last answer seen leaves in lastStatus: the HTTP status of
\* a failed request, -1 for an answer that does not parse
StatusSeen(r) == IF r.kind = "garbled" THEN 0 - 1 ELSE r.status

IsMockFlagged(out) ==
    /\ out.kind = "result"
    /\ out.result[1] = MOCK_RESULT @@ [usedMock |-> TRUE]

\* C9: for every sequence of per-model responses detectFloorPlan ends in
\* exactly one of: the parsed result of the answering model; the mock
\* dataset with usedMock true, exactly when the last status seen is 429 or
\* 403; the error API_ERROR_<last status> for every other failing status.
\* Without an API key it fails with NO_API_KEY, having neither read the
\* image nor sent a request.
C9_DetectOutcomes ==
    dfp.phase = "settled" =>
        LET out == dfp.out[1]
            n == LastAsked(dfp.script)
            f == dfp.script[n]
            mockStatus == f.kind = "http" /\ f.status \in {429, 403}
        IN  /\ ~API_KEY =>
                out.kind = "NO_API_KEY" /\ ~out.read /\ out.requests = 0
            /\ (API_KEY /\ dfp.readOk /\ \A k \in 1..n : IsResponse(dfp.script[k])) =>
                /\ out.kind \in {"result", "API_ERROR"}
                /\ out.requests = n
                /\ IsMockFlagged(out) <=> mockStatus
                /\ f.kind = "ok" =>
                       /\ out.kind = "result"
                       /\ out.result[1] = ParsedResult(f.data) @@ [usedModel |-> MODELS[n]]
                /\ (f.kind # "ok" /\ ~mockStatus) =>
                       out.kind = "API_ERROR" /\ out.status = StatusSeen(f)

\* the first model answers 404, the second 403: the mock dataset, flagged
C9_Witness ==
    /\ dfp.phase = "settled" /\ API_KEY /\ dfp.readOk
    /\ dfp.script[1].kind = "http" /\ dfp.script[1].status = 404
    /\ dfp.script[2].kind = "http" /\ dfp.script[2].status = 403
    /\ IsMockFlagged(dfp.out[1])

\* C10: when a detection call fails, detectError is non-null, detecting is
\* false, and rooms, walls, doors, windows, detected and generated have the
\* values they had before the call; the failure starts no request: a
\* request starts only on a user's detect.
C10_FailureLeavesState ==
    [][/\ last'.op = "rejected" =>
              /\ app'.detectError # null
              /\ ~app'.detecting
              /\ Geometry(app') = last'.before
       /\ BagCardinality(pending') > BagCardinality(pending) => last'.op = "detect"]_vars

\* what does hold of a failed call: the step that handles the failure
\* writes detectError and detecting and no other cell, and ends the call
FailureStepWritesErrorOnly ==
    [][last'.op = "rejected" =>
          /\ app'.detectError # null
          /\ app' = [app EXCEPT !.detectError = app'.detectError, !.detecting = FALSE]
          /\ BagCardinality(pending') = BagCardinality(pending) - 1]_vars

\* C11: in every reachable state every room has width > 0, height > 0 and
\* wallHeight > 0 (detection delivers positive values): no edit through
\* the Sidebar inputs or WallReview's cells stores a zero or negative
\* dimension.
C11_DimensionsPositive ==
    \A i \in 1..Len(app.rooms) :
        app.rooms[i].width > 0 /\ app.rooms[i].height > 0 /\ app.rooms[i].wallHeight > 0

\* this step handles a Sidebar number input left with text that is not a
\* positive number
SidebarInvalidInput ==
    /\ last'.op = "roomUpdate"
    /\ last'.field \in {"width", "height", "wallHeight"}
    /\ ~isValidEntry(last'.typed)

\* this step commits (Enter, blur, the confirm button) an open room cell /
\* wall cell whose text is not a positive number
CellInvalidCommit ==
    /\ review.editState # null /\ ~isValidEntry(review.editState[1].value)
    /\ review'.editState = null /\ View(app') = "review"

WallCellInvalidCommit ==
    /\ review.wallEditState # null /\ ~isValidEntry(review.wallEditState[1].value)
    /\ review'.wallEditState = null /\ View(app') = "review"

\* C12: invalid or non-numeric input on any room or wall edit path (the
\* Sidebar's width, depth and height inputs, commitEdit, commitWallEdit)
\* is a no-op: the edited field keeps its canonical value and the room's
\* confidence does not change.
C12_InvalidInputIsNoOp ==
    [][(SidebarInvalidInput \/ CellInvalidCommit \/ WallCellInvalidCommit)
          => app'.rooms = app.rooms /\ app'.walls = app.walls]_vars

\* this step commits the open room cell with the text startEdit put there
UntouchedCommit ==
    /\ last'.op = "commitEdit"
    /\ RoomEditorShown(app, review)
    /\ review.editState # null
    /\ review.editState[1].value =
           getDisplay(app.rooms[selectedIdx(app.rooms, review)],
                      review.editState[1].field, app.unit)

\* C13: rounding to two decimals is for display only, the canonical value
\* in rooms is never replaced by a rounded copy: opening a cell of
\* WallReview and committing it with its text unchanged leaves the room's
\* canonical width, height and wallHeight as they were.
C13_CanonicalNeverRounded ==
    [][UntouchedCommit =>
          \A i \in 1..Len(app.rooms) :
              /\ app'.rooms[i].width = app.rooms[i].width
              /\ app'.rooms[i].height = app.rooms[i].height
              /\ app'.rooms[i].wallHeight = app.rooms[i].wallHeight]_vars

\* the dimensions and the confidence of every room
RoomValues(rooms) ==
    [i \in 1..Len(rooms) |->
        <<rooms[i].id, rooms[i].width, rooms[i].height, rooms[i].wallHeight,
          rooms[i].confidence>>]

\* C15: the exported document is {meta: {unit, scale}, rooms}, its rooms
\* the canonical ones: a change of the display unit or of the scale
\* changes meta.unit or meta.scale and leaves every room's width, height,
\* wallHeight and confidence, in the state and in the document, as it was.
C15_ExportIsCanonical ==
    [][(app'.unit # app.unit \/ app'.scale # app.scale) =>
          /\ RoomValues(app'.rooms) = RoomValues(app.rooms)
          /\ floorPlanData(app').rooms = floorPlanData(app).rooms
          /\ floorPlanData(app').meta = [scale |-> app'.scale, unit |-> app'.unit]
          /\ DOMAIN floorPlanData(app') = {"meta", "rooms"}]_vars

\* detected rooms are exported with the unit set to feet and a scale of 3
C15_Witness ==
    /\ app.unit = "ft" /\ app.scale = 300 /\ app.rooms # << >>
    /\ floorPlanData(app).meta = [scale |-> 300, unit |-> "ft"]
    /\ floorPlanData(app).rooms = app.rooms

\* the value the stored room shows in the field it was typed into
UnitsShown ==
    IF calc.path = "sidebar"
    THEN sidebarDisplay(calc.rooms[1], calc.field, calc.unit)
    ELSE getDisplay(calc.rooms[1], calc.field, calc.unit)

\* C14: unit conversion round-trips: for every unit u of m, cm, mm, ft
\* (factors 1, 0.01, 0.001, 0.3048) and every value v > 0, v converted to
\* metres (v * factor) and back to the unit (metres / factor) is v.
C14_UnitRoundTrip ==
    calc.phase = "stored" =>
        LET metres == calc.rooms[1][calc.field]
            factor == UNITS[calc.unit] \div 100
        IN  /\ metres \div factor = calc.v /\ metres % factor = 0
            /\ UnitsShown = calc.v

\* 16.40 ft typed into WallReview's width cell: 4.99872 m, shown as 16.40
C14_Witness ==
    /\ calc.phase = "stored" /\ calc.path = "review" /\ calc.unit = "ft"
    /\ calc.field = "width" /\ calc.v = 1640
    /\ calc.rooms[1].width = 4998720
    /\ UnitsShown = 1640

\* C16: a wall of raw length L and effective thickness T is built as a
\* solid of length max(0.01, L - T), whatever the wall's heading, centred
\* on the midpoint of the segment; a wall shorter than its thickness, or
\* of no length, gets a solid of length 0.01.
C16_WallLength ==
    calc.phase = "built" =>
        LET w == calc.wall
            solid == calc.out[1]
            L == calc.rawLength
            T == getWallThickness(w)
        IN  /\ solid.size[1] = (IF L - T > 10000 THEN L - T ELSE 10000)
            /\ solid.size[1] > 0
            /\ solid.size[3] = T
            /\ 2 * solid.position[1] = ToWorld(w.x1) + ToWorld(w.x2)
            /\ 2 * solid.position[3] = ToWorld(w.y1) + ToWorld(w.y2)
            /\ (L < T) => solid.size[1] = 10000

\* an oblique interior wall of 0.1 m, shorter than its 0.15 m thickness
C16_Witness ==
    /\ calc.phase = "built"
    /\ calc.rawLength = 100000 /\ calc.wall.thickness = undefined
    /\ calc.wall.type = "interior"
    /\ calc.wall.x2 - calc.wall.x1 = 3 /\ calc.wall.y2 - calc.wall.y1 = 4
    /\ calc.out[1].size[1] = 10000

\* two ground rectangles share a region of positive area
Overlap(f, g) ==
    /\ Max(f[1], g[1]) < Min(f[2], g[2])
    /\ Max(f[3], g[3]) < Min(f[4], g[4])

SolidsOverlap == Overlap(Footprint(calc.out[1]), Footprint(calc.out[2]))

\* C17: two walls of thickness 0.25 and raw length 4 m that share an end
\* point and meet at a right angle are each built with length 3.75 m, and
\* the footprints of the two solids share no region of positive area.
C17_CornerOfEqualWalls ==
    (/\ calc.phase = "built" /\ calc.kind = "corner"
     /\ calc.lengths = <<4000000, 4000000>>
     /\ \A i \in 1..2 : getWallThickness(calc.walls[i]) = 250000)
    => /\ calc.out[1].size[1] = 3750000
       /\ calc.out[2].size[1] = 3750000
       /\ ~SolidsOverlap

\* such a corner, the second wall drawn towards the shared end point
C17_Witness ==
    /\ calc.phase = "built" /\ calc.kind = "corner"
    /\ calc.lengths = <<4000000, 4000000>>
    /\ \A i \in 1..2 : getWallThickness(calc.walls[i]) = 250000
    /\ calc.walls[2].x2 = JunctionPoint[1] /\ calc.walls[2].y2 = JunctionPoint[2]
    /\ calc.out[1].size[1] = 3750000 /\ calc.out[2].size[1] = 3750000
    /\ ~SolidsOverlap

\* C18: after miter trimming the solids of two axis-aligned perpendicular
\* walls that meet at a corner or at a T-junction share no region of
\* positive area, whatever the two thicknesses (an interior 0.15 wall
\* abutting an exterior 0.25 wall included).
C18_JunctionsDoNotOverlap ==
    calc.phase = "built" => ~SolidsOverlap

AllHaveBbox == \A k \in 1..Len(calc.rooms) : HasBbox(calc.rooms[k])

\* C19: when every room carries a bbox, computePositions returns one
\* anchor per room, in input order, at (((bbox.x + bbox.w/2) * 20 - 10) *
\* scale, 0, ((bbox.y + bbox.h/2) * 20 - 10) * scale), on the first call
\* and on every later one; the boxes {0,0,0.5,0.5} and {0.5,0,0.5,0.5}
\* at scale 1 give (-5,0,-5) and (5,0,-5).
C19_BboxAnchors ==
    (calc.phase = "placed" /\ AllHaveBbox) =>
        /\ Len(calc.out) = Len(calc.rooms)
        /\ \A k \in 1..Len(calc.rooms) :
              LET b == calc.rooms[k].bbox IN
              /\ 100 * calc.out[k][1] = ((2 * b.x + b.w) * 10000 - 10000000) * calc.scale
              /\ calc.out[k][2] = 0
              /\ 100 * calc.out[k][3] = ((2 * b.y + b.h) * 10000 - 10000000) * calc.scale
        /\ (/\ Len(calc.rooms) = 2 /\ calc.scale = 100
            /\ calc.rooms[1].bbox = BBox(0, 0, 500, 500)
            /\ calc.rooms[2].bbox = BBox(500, 0, 500, 500))
           => calc.out = << <<0 - 5000000, 0, 0 - 5000000>>,
                            <<5000000, 0, 0 - 5000000>> >>

\* the two boxes of the example, placed a second time
C19_Witness ==
    /\ calc.phase = "placed" /\ calc.calls = 2
    /\ Len(calc.rooms) = 2 /\ calc.scale = 100
    /\ HasBbox(calc.rooms[1]) /\ HasBbox(calc.rooms[2])
    /\ calc.rooms[1].bbox = BBox(0, 0, 500, 500)
    /\ calc.rooms[2].bbox = BBox(500, 0, 500, 500)
    /\ calc.out = << <<0 - 5000000, 0, 0 - 5000000>>, <<5000000, 0, 0 - 5000000>> >>

\* the width of room k as drawn, and the left and right edge of its place
DrawnWidth(k) == (calc.rooms[k].width * calc.scale) \div 100
LeftEdge(k) == calc.out[k][1] - DrawnWidth(k) \div 2
RightEdge(k) == calc.out[k][1] + DrawnWidth(k) \div 2

\* C20: the fallback grid is used whenever at least one room lacks a bbox
\* and never otherwise; room i (from 0) of n is in column i mod
\* ceil(sqrt(n)) and row floor(i / ceil(sqrt(n))): the first room of a row
\* starts at the row's beginning, every other room 0.8 after the end of the
\* one before it, each row is 8 further than the row before it; the
\* anchors are a function of the room list and the scale alone.
C20_FallbackGrid ==
    calc.phase = "placed" =>
        LET n == Len(calc.rooms)
            cols == CeilSqrt(n)
        IN  /\ Len(calc.out) = n
            /\ ~AllHaveBbox =>
                  \A k \in 1..n :
                     LET i == k - 1 IN
                     /\ calc.out[k][2] = 0
                     /\ (i % cols = 0) => LeftEdge(k) = LeftEdge(1)
                     /\ (i % cols # 0) =>
                           /\ LeftEdge(k) = RightEdge(k - 1) + 800000
                           /\ calc.out[k][3] = calc.out[k - 1][3]
                     /\ (i >= cols) =>
                           calc.out[k][3] = calc.out[k - cols][3] + 8000000
            /\ (AllHaveBbox /\ n > 0) =>
                  \A k \in 1..n :
                     100 * calc.out[k][3] =
                        ((2 * calc.rooms[k].bbox.y + calc.rooms[k].bbox.h) * 10000
                           - 10000000) * calc.scale

\* five rooms, one of them without a bbox, laid out in three columns and
\* two rows
C20_Witness ==
    /\ calc.phase = "placed"
    /\ Len(calc.rooms) = 5 /\ CeilSqrt(5) = 3
    /\ HasBbox(calc.rooms[1]) /\ ~HasBbox(calc.rooms[2])
    /\ LeftEdge(4) = LeftEdge(1)
    /\ LeftEdge(5) = RightEdge(4) + 800000
    /\ calc.out[4][3] = calc.out[1][3] + 8000000

\* C21: a door or window is horizontal exactly when its bbox is wider than
\* high; when the bbox is higher than wide, and when it is square, it is
\* not horizontal and is turned by 90 degrees.
C21_OpeningOrientation ==
    calc.phase = "built" =>
        /\ (calc.out.door.rotY = 0) <=> (calc.door.bbox.w > calc.door.bbox.h)
        /\ (calc.out.win.rotY = 0) <=> (calc.win.bbox.w > calc.win.bbox.h)
        /\ (calc.door.bbox.w <= calc.door.bbox.h) => calc.out.door.rotY = 90
        /\ (calc.win.bbox.w <= calc.win.bbox.h) => calc.out.win.rotY = 90

\* a square door box, turned, beside a window wider than high, not turned
C21_Witness ==
    /\ calc.phase = "built"
    /\ calc.door.bbox.w = calc.door.bbox.h /\ calc.out.door.rotY = 90
    /\ calc.win.bbox.w > calc.win.bbox.h /\ calc.out.win.rotY = 0

\* the scene's shared wall height: 2.8 or the highest room, whichever is more
SharedHeights ==
    {2800000} \cup { calc.rooms[k].wallHeight : k \in
                       {j \in 1..Len(calc.rooms) : calc.rooms[j].wallHeight # undefined} }

\* C22: with H the scene's shared default wall height (the largest of 2.8
\* and the rooms' wallHeight), a door is min(0.85 H, 2.1) high, a window
\* min(0.45 H, 1.2) high and placed at 0.35 H; doors and windows stand at
\* their bbox centre mapped by * 20 - 10, whatever the global scale.
C22_OpeningHeights ==
    calc.phase = "built" =>
        \E H \in SharedHeights :
            /\ \A g \in SharedHeights : g <= H
            /\ 100 * calc.out.door.height =
                  (IF 85 * H < 210000000 THEN 85 * H ELSE 210000000)
            /\ 100 * calc.out.win.height =
                  (IF 45 * H < 120000000 THEN 45 * H ELSE 120000000)
            /\ 100 * calc.out.win.position[2] = 35 * H
            /\ calc.out.door.position =
                  << (2 * calc.door.bbox.x + calc.door.bbox.w) * 10000 - 10000000, 0,
                     (2 * calc.door.bbox.y + calc.door.bbox.h) * 10000 - 10000000 >>
            /\ calc.out.win.position[1] =
                  (2 * calc.win.bbox.x + calc.win.bbox.w) * 10000 - 10000000
            /\ calc.out.win.position[3] =
                  (2 * calc.win.bbox.y + calc.win.bbox.h) * 10000 - 10000000

\* a scene whose only room is 2.4 high, drawn at scale 2: the shared height
\* is 2.8 and the window sits at 0.98
C22_Witness ==
    /\ calc.phase = "built" /\ calc.scale = 200
    /\ Len(calc.rooms) = 1 /\ calc.rooms[1].wallHeight = 2400000
    /\ calc.out.win.position[2] = 980000
    /\ calc.out.door.height = 2100000 /\ calc.out.win.height = 1200000

\* C23: every wall's effective thickness is positive in every reachable
\* state: a wall parsed with a thicknessRatio has thickness
\* clamp(thicknessRatio * 20, 0.05, 0.5), a wall parsed without one 0.25
\* (exterior) or 0.15 (interior), and no committed wall edit (thickness,
\* wallHeight, type toggle) leaves a thickness or a wallHeight that is zero
\* or negative.
C23_WallThicknessPositive ==
    /\ \A k \in 1..Len(app.walls) :
          /\ getWallThickness(app.walls[k]) > 0
          /\ app.walls[k].wallHeight = undefined \/ app.walls[k].wallHeight > 0
    /\ (last.op = "init" /\ calc.phase = "parsed") =>
          \A k \in 1..Len(calc.raw) :
             LET w == calc.raw[k]
                 t == app.walls[k].thickness
             IN  IF w.thicknessRatio # null
                 THEN LET m == w.thicknessRatio[1] * 20000 IN
                      /\ t >= 50000 /\ t <= 500000
                      /\ (m >= 50000 /\ m <= 500000) => t = m
                      /\ m < 50000 => t = 50000
                      /\ m > 500000 => t = 500000
                 ELSE t = (IF w.type = Some("exterior") THEN 250000 ELSE 150000)

\* a wall parsed with a negative thicknessRatio, its thickness then set to
\* 0.01 cm by a committed edit
C23_Witness ==
    /\ calc.phase = "parsed" /\ calc.raw[2].thicknessRatio = Some(0 - 5)
    /\ last.op = "commitWallEdit" /\ last.field = "thickness" /\ last.id = "w2"
    /\ app.walls[2].thickness = 100
    /\ app.walls[1].thickness = 250000

\* C24: the resize observation is an owned resource: at most one
\* ResizeObserver created by WallReview is connected at any time, a
\* connected observer was created for the current imageUrl (the one of the
\* previous imageUrl is disconnected before the new one observes), and
\* none is connected once WallReview is unmounted or has no image.
C24_OneLiveObserver ==
    calc.phase = "observer" =>
        /\ Cardinality(calc.live) <= 1
        /\ \A ro \in calc.live : ro.image = calc.imageUrl /\ ro.id = calc.created
        /\ ~calc.mounted => calc.live = {}
        /\ calc.imageUrl = NoImage => calc.live = {}

\* WallReview shows its second image, observed by the one observer created
\* for it
C24_Witness ==
    /\ calc.phase = "observer" /\ calc.mounted
    /\ calc.created >= 2
    /\ calc.imageUrl = 2
    /\ calc.live = {[id |-> calc.created, image |-> 2]}

Ids(seq) == [k \in 1..Len(seq) |-> seq[k].id]

\* every field of record b but those of `fields` is as in record a
SameBut(a, b, fields) ==
    /\ DOMAIN a = DOMAIN b
    /\ \A f \in DOMAIN a \ fields : a[f] = b[f]

\* C25: edits are local. A room edit changes only the named field (and
\* confidence) of the room with the given id, no other room, no wall, door
\* or window; a wall edit changes only the named field of the wall with
\* the given id, no other wall, no room, door or window; doors and windows
\* change only on upload, clear or a completed detection; every edit keeps
\* the number, order and ids of rooms and walls; an edit naming an unknown
\* id changes nothing.
C25_EditsAreLocal ==
    [][LET e == last' IN
       /\ (e.op = "roomUpdate") =>
             /\ Ids(app'.rooms) = Ids(app.rooms)
             /\ \A k \in 1..Len(app.rooms) :
                   IF app.rooms[k].id = e.id
                   THEN SameBut(app.rooms[k], app'.rooms[k], {e.field, "confidence"})
                   ELSE app'.rooms[k] = app.rooms[k]
             /\ app'.walls = app.walls
             /\ (\A k \in 1..Len(app.rooms) : app.rooms[k].id # e.id) => app' = app
       /\ (e.op = "wallUpdate") =>
             /\ Ids(app'.walls) = Ids(app.walls)
             /\ \A k \in 1..Len(app.walls) :
                   IF app.walls[k].id = e.id
                   THEN SameBut(app.walls[k], app'.walls[k], {e.field})
                   ELSE app'.walls[k] = app.walls[k]
             /\ app'.rooms = app.rooms
             /\ (\A k \in 1..Len(app.walls) : app.walls[k].id # e.id) => app' = app
       /\ (app'.doors # app.doors \/ app'.windows # app.windows)
             => e.op \in {"upload", "clear", "resolved"}
      ]_vars

\* the second of two walls has been given a thickness of 0.1, the first
\* wall and the room are as detected
C25_Witness ==
    /\ last.op = "wallUpdate" /\ last.id = "w2" /\ last.field = "thickness"
    /\ Len(app.walls) = 2
    /\ app.walls[2].thickness = 100000
    /\ app.walls[1] = ParsedResult("plan").walls[1]
    /\ app.rooms = ParsedResult("plan").rooms
    /\ app.doors = ParsedResult("plan").doors

Is404(r) == r.kind = "http" /\ r.status = 404

\* C26: detectFloorPlan asks the models in the order gemini-2.0-flash,
\* gemini-1.5-flash, gemini-2.0-flash-lite; model k+1 is asked only if
\* model k answered 404; the first answer that parses, any other HTTP
\* status and an answer that does not parse (status -1) end the loop: at
\* most three requests are sent, and an answer that does not parse is not
\* retried on the next model.
C26_ModelOrder ==
    /\ MODELS = <<"gemini-2.0-flash", "gemini-1.5-flash", "gemini-2.0-flash-lite">>
    /\ (dfp.phase = "settled" /\ API_KEY /\ dfp.readOk) =>
          LET out == dfp.out[1]
              n == out.requests
          IN  /\ n >= 1 /\ n <= 3
              /\ \A k \in 2..n : Is404(dfp.script[k - 1])
              /\ n < 3 => ~Is404(dfp.script[n])
              /\ dfp.script[n].kind = "ok" =>
                    /\ out.kind = "result"
                    /\ out.result[1].usedModel = MODELS[n]
              /\ dfp.script[n].kind = "garbled" =>
                    /\ out.kind = "API_ERROR"
                    /\ out.status = 0 - 1
              /\ (dfp.script[n].kind = "http" /\ dfp.script[n].status \notin {429, 403})
                    => out.kind = "API_ERROR" /\ out.status = dfp.script[n].status

\* the first model answers 404, the second with a text that does not
\* parse, the third would have answered with a plan: two requests, an error
C26_Witness ==
    /\ dfp.phase = "settled" /\ API_KEY /\ dfp.readOk
    /\ Is404(dfp.script[1])
    /\ dfp.script[2].kind = "garbled"
    /\ dfp.script[3].kind = "ok"
    /\ dfp.out[1].requests = 2
    /\ dfp.out[1].kind = "API_ERROR" /\ dfp.out[1].status = 0 - 1

\* C27: every handleDetect call that sets detecting to true is eventually
\* followed by detecting being false, whether its detection call resolves
\* or rejects, provided the call completes; the page is never left in the
\* loading view once its last pending request has completed.
C27_LoadingEnds ==
    /\ [](pending = EmptyBag => ~app.detecting)
    /\ [][last'.op \in {"resolved", "rejected"} => ~app'.detecting]_vars
    /\ (app.detecting ~> ~app.detecting)

\* the events left out of NextLoading write neither detecting nor the set
\* of pending calls
LoadingFrame ==
    [][last'.op \notin {"upload", "clear", "detect", "resolved", "rejected"}
          => app'.detecting = app.detecting /\ pending' = pending]_vars

\* what of C27 is safety: it holds of every event of the page
LoadingSafety ==
    /\ [](pending = EmptyBag => ~app.detecting)
    /\ [][last'.op \in {"resolved", "rejected"} => ~app'.detecting]_vars

\* a call was rejected and the page has left the loading view
C27_Witness ==
    /\ last.op = "rejected"
    /\ ~app.detecting /\ pending = EmptyBag
    /\ app.detectError # null

\* C28: in every reachable state generated implies detected: the 3-D scene
\* is shown only for geometry a completed detection produced, Generate
\* being offered only while detected is true and every event that sets
\* detected to false (upload, clear) setting generated to false as well.
C28_GeneratedImpliesDetected ==
    /\ app.generated => app.detected
    /\ View(app) = "scene" => app.detected
    /\ last.op \in {"upload", "clear"} => ~app.detected /\ ~app.generated

\* the scene is shown for the rooms of a detection
C28_Witness ==
    /\ View(app) = "scene" /\ app.generated /\ app.detected
    /\ app.rooms # << >>

\* the rooms, walls, doors and windows are those of the mock dataset, as
\* delivered or edited since
FromMock(a) ==
    /\ Ids(a.rooms) = Ids(MOCK_RESULT.rooms)
    /\ Ids(a.walls) = Ids(MOCK_RESULT.walls)
    /\ a.doors = MOCK_RESULT.doors
    /\ a.windows = MOCK_RESULT.windows

\* C29: the demo-data banner flag agrees with the data shown: usedMock is
\* true only if detected is true and the rooms, walls, doors and windows
\* come from the mock dataset; after an image upload or a clear usedMock is
\* false.
C29_BannerMatchesData ==
    /\ app.usedMock => app.detected /\ FromMock(app)
    /\ last.op \in {"upload", "clear"} => ~app.usedMock

\* C30: in WallReview the selection is exclusive: while selectionType is
\* wall, selectedId is null and selectedWallId is not; while it is room,
\* selectedWallId is null; and a step of the mounted WallReview that moves
\* the selection (previous / next, or a click) over unchanged rooms and
\* walls lands on a room or wall of the list, never beyond its ends.
C30_SelectionExclusive ==
    /\ [](/\ review.selectionType \in {"room", "wall"}
          /\ review.selectionType = "wall" =>
                review.selectedId = null /\ review.selectedWallId # null
          /\ review.selectionType = "room" => review.selectedWallId = null)
    /\ [][(View(app) = "review" /\ View(app') = "review"
              /\ app'.rooms = app.rooms /\ app'.walls = app.walls) =>
            /\ (review'.selectedId # review.selectedId /\ review'.selectedId # null)
                  => selectedIdx(app'.rooms, review') \in 1..Len(app'.rooms)
            /\ (review'.selectedWallId # review.selectedWallId
                  /\ review'.selectedWallId # null)
                  => swIdx(app'.walls, review') \in 1..Len(app'.walls)]_vars

\* the last of two walls is selected, no room is
C30_Witness ==
    /\ View(app) = "review"
    /\ review.selectionType = "wall"
    /\ Len(app.walls) = 2 /\ swIdx(app.walls, review) = 2
    /\ review.selectedId = null

====
